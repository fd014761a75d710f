------------------------------- MODULE Clients -------------------------------
(***************************************************************************)
(* The commands that work against the platforms, one at a time: byakugan        *)
(* timeline --elastic, load --setup, cti-pull, and the verbs of the exchange.      *)
(* They share no state with each other: `client` says which one is looked at,       *)
(* the others stay where they start.                                                 *)
(***************************************************************************)
EXTENDS Timeline, Setup, Cti, Verbs

VARIABLE client    \* the command that is looked at

vars == <<client, timelineVars, setupVars, ctiVars, verbVars>>

\* A command that is not looked at has one initial state.
Init ==
  /\ client \in {"timeline", "setup", "cti", "verbs"}
  /\ TimelineInit /\ (client # "timeline" => load = <<>> /\ request = CHOOSE r \in Requests : TRUE)
  /\ SetupInit /\ (client # "setup" => stored = [i \in Items |-> "missing"])
  /\ CtiInit /\ (client # "cti" => platform = CHOOSE p \in FirstPlatforms : TRUE)
  /\ VerbInit /\ (client # "verbs" => verb.name = "cti-sightings" /\ ~verb.out /\ ~verb.push /\ verb.input = <<>>)

Next ==
  \/ client = "timeline" /\ TimelineNext /\ UNCHANGED <<client, setupVars, ctiVars, verbVars>>
  \/ client = "setup" /\ SetupNext /\ UNCHANGED <<client, timelineVars, ctiVars, verbVars>>
  \/ client = "cti" /\ CtiNext /\ UNCHANGED <<client, timelineVars, setupVars, verbVars>>
  \/ client = "verbs" /\ VerbNext /\ UNCHANGED <<client, timelineVars, setupVars, ctiVars>>

Spec == Init /\ [][Next]_vars

-----------------------------------------------------------------------------
(* The timeline *)

\* A timeline that is read page by page over a point in time, while loaders write, is
\* the one that the tree gives of the rows that had been loaded when the point in time
\* was opened: every row once, and every field of it back (timeline.py
\* build_from_elastic, "byte-identical to the local one").
TimelineIsLocal ==
  reader \in {"ok", "empty"} =>
    timeline = BuildTimeline(SelectSeq(Distinct(SubSeq(load, 1, seen)),
                                       LAMBDA item : Parses(item.row, "timestamp")),
                             request)

-----------------------------------------------------------------------------
(* Setup *)

\* A setup that ends well leaves every template, space and saved object as the tree
\* says, but for what the operator touched after it was seen or put, whichever other
\* loader set up at the same time (load.py run_setup, run_kibana_setup).
SetupOkMeansRendered ==
  \A l \in Loaders : Done(l) /\ setup[l].ok => \A i \in Items \ touched[l] : stored[i] = "rendered"

-----------------------------------------------------------------------------
(* The pull *)

\* After a pull the copy has the present version of every indicator that is not newer
\* than the watermark of the next pull and that gives a document, but for those that pulls
\* by `modified` cannot come to: a version that came with a time already passed, or one at
\* the very time at which --max-pages cut a pull.  Neither the paging nor a modification
\* between two pages or two pulls loses another, equal times or not (opencti.py
\* pull_indicators, indicators.py run_pull).
CopyIsCurrent ==
  pull.pc = "idle" =>
    \A i \in Indicators \ overtaken :
      platform[i].modified <= since /\ HasIndicator(platform[i]) /\ SkipReason(platform[i]) = "" =>
        i \in DOMAIN copy /\ copy[i] = ToCtiDoc(platform[i])

\* "paged by cursor in modified order so an incremental pull (--since) resumes where the
\* last one ended" (opencti.py:46): between two pulls, what is not newer than the watermark
\* and gives a document is in the copy.
PullResumes ==
  pull.pc = "idle" =>
    \A i \in Indicators :
      platform[i].modified <= since /\ HasIndicator(platform[i]) /\ SkipReason(platform[i]) = "" =>
        i \in DOMAIN copy

-----------------------------------------------------------------------------
(* The verbs *)

\* The alerts that tell of one sighting, by their place and that of the enrichment.
AlertsOf(alerts, key) ==
  {a \in UNION {{<<k, j>> : j \in DOMAIN alerts[k].enrichments} : k \in DOMAIN alerts} :
     LET alert == alerts[a[1]]
     IN  /\ SeenAt(alert) # 0
         /\ SightedIndicator(alert.enrichments[a[2]]) \in IndicatorIds
         /\ AlertKey(alert, alert.enrichments[a[2]]) = key}

\* A sighting counts its alerts, spans their times whatever the order they are read
\* in, and has an observation for each of the times (sightings.py alert_sightings).
SightingsSpanTheirAlerts ==
  verb.name = "cti-sightings" /\ work.pc \notin {"read", "nothing"} =>
    \A id \in DOMAIN work.objs :
      work.objs[id].type = "sighting" =>
        LET s == work.objs[id]
            alerts == AlertsOf(verb.input, id[3])
            times == {SeenAt(verb.input[a[1]]) : a \in alerts}
        IN  /\ s.count = Cardinality(alerts)
            /\ s.first_seen = Min(times) /\ s.last_seen = Max(times) /\ s.created = Min(times)
            /\ s.modified = Max({Later(DetectedAt(verb.input[a[1]]), SeenAt(verb.input[a[1]])) : a \in alerts})
            /\ s.observed_data_refs # <<>> =>
                 /\ Len(s.observed_data_refs) = Cardinality(times)
                 /\ \A k \in DOMAIN s.observed_data_refs : s.observed_data_refs[k] \in DOMAIN work.objs

\* In what stix-export sends, no object is older than one that a bundle passed through
\* has for its id, in whichever order they come (export.py merge_objects, "a duplicate
\* keeps the newest modified").
NewestSurvives ==
  verb.name = "stix-export" /\ work.pc \notin {"read", "nothing"} =>
    \A b \in DOMAIN verb.input.bundles : \A k \in DOMAIN verb.input.bundles[b] :
      LET obj == verb.input.bundles[b][k]
      IN  obj.id \in DOMAIN work.objs /\ Modified(work.objs[obj.id]) >= Modified(obj)

\* What ends well has written and pushed what it was asked to, and nothing that is not
\* valid is ever written or pushed, whatever the answers and however often the verb is
\* run (run_export, run_sightings: "nothing is written or pushed then").
OkMeansSent ==
  /\ work.pc = "ok" =>
       /\ verb.out => file = work.objs
       /\ verb.push => \A id \in DOMAIN work.objs : id \in DOMAIN ingested /\ ingested[id] = work.objs[id]
  /\ Errors(file) = {} /\ Errors(ingested) = {}

=============================================================================
