------------------------------- MODULE Lanes --------------------------------
(***************************************************************************)
(* What byakugan stix-behaviour reads (exchange.behaviour): the directories of  *)
(* the tree that are finished sources, and the output files of the detection      *)
(* lanes as firings.  A line of a file is a row of flattened keys.                  *)
(***************************************************************************)
EXTENDS Alerts

CONSTANTS
  IntOf        \* the texts that are a decimal number, to the number

\* A number as a list of one; a text that is none gives no number.
ToInt(v) == IF v \in DOMAIN IntOf THEN <<IntOf[v]>> ELSE <<>>

NoDetection ==
  [source |-> "", id |-> "", techniques |-> <<>>, timestamp |-> 0, host |-> "", ips |-> <<>>,
   guid |-> "", pid |-> <<>>, hashes |-> <<>>]

\* The technique ids of the first field that has some.
FirstTechniques(rec, fields) ==
  LET have == SelectSeq(fields, LAMBDA f : TechniqueIds(Get(rec, f)) # <<>>)
  IN  IF have = <<>> THEN <<>> ELSE TechniqueIds(rec[have[1]])

SuricataDetections(records) ==
  LET alerts == SelectSeq(records, LAMBDA rec : Get(rec, "event_type") = "alert")
      Detection(rec) ==
        [NoDetection EXCEPT !.source = "suricata", !.id = "sig-suricata-alert", !.timestamp = Time(rec),
           !.techniques = FirstTechniques(rec, <<"alert.metadata.mitre_technique_id", "alert.metadata">>),
           !.ips = SelectSeq(<<Get(rec, "src_ip"), Get(rec, "dest_ip")>>, LAMBDA ip : ip \in IsAddress)]
  IN  [k \in DOMAIN alerts |-> Detection(alerts[k])]

HayabusaDetections(records) ==
  LET Detection(rec) ==
        [NoDetection EXCEPT !.source = "hayabusa", !.id = "sig-hayabusa-high",
           !.timestamp = FirstTime(rec, <<"Timestamp">>), !.host = Get(rec, "Computer"),
           !.techniques = FirstTechniques(rec, <<"MitreTags", "OtherTags">>),
           !.guid = FirstOf(rec, <<"Details.PGUID", "Details.ProcessGuid", "ExtraFieldInfo.ProcessGuid">>),
           !.pid = ToInt(Get(rec, "Details.PID")), !.hashes = OrElse(rec, "Details.Hashes", <<>>)]
  IN  [k \in DOMAIN records |-> Detection(records[k])]

\* A match has neither a time nor a hash.
YaraDetections(records) ==
  LET matches == SelectSeq(records, LAMBDA rec : Get(rec, "tool") = "yara" /\ Has(rec, "rule"))
      Detection(rec) ==
        [NoDetection EXCEPT !.source = "yara", !.id = "sig-yara-match", !.host = Get(rec, "host"),
           !.techniques = TechniqueIds(rec["rule"]), !.pid = ToInt(Get(rec, "pid"))]
  IN  [k \in DOMAIN matches |-> Detection(matches[k])]

\* The lanes in the order they are read, and how the names of their files end.
LaneOrder == <<"suricata", "hayabusa", "yara">>

LaneFiles ==
  [suricata |-> {"eve.json", ".eve.jsonl"},
   hayabusa |-> {"timeline.jsonl"},
   yara     |-> {"yara.jsonl", "scan.jsonl", "memory.jsonl", "disk.jsonl", "matches.jsonl"}]

\* The files of each lane in the order of their names, but for what is being staged.
LoadDetections(files) ==
  LET FilesOf(lane) ==
        SelectSeq(files, LAMBDA f : f.lane = lane /\ ~f.staged /\ f.ending \in LaneFiles[lane])
      Parsed(f) == CASE f.lane = "suricata" -> SuricataDetections(f.records)
                     [] f.lane = "hayabusa" -> HayabusaDetections(f.records)
                     [] f.lane = "yara"     -> YaraDetections(f.records)
      inOrder == FlattenSeq([l \in DOMAIN LaneOrder |-> FilesOf(LaneOrder[l])])
  IN  FlattenSeq([k \in DOMAIN inOrder |-> Parsed(inOrder[k])])

-----------------------------------------------------------------------------
(* The tree: its directories in the order of their names, each with those above it, *)
(* whether it has the done-marker, and the rows of its objects.                      *)

\* A finished source is taken as it is; else the finished ones beneath the path.
SourcesAt(tree, path) ==
  LET marked == {k \in DOMAIN tree : tree[k].marked}
      own    == {k \in marked : tree[k].path = path}
  IN  IF own # {} THEN own ELSE {k \in marked : path \in tree[k].above}

\* A path with no finished source is an error of the whole command.
NoSource(tree, paths) == \E path \in paths : SourcesAt(tree, path) = {}

CarSourceDirs(tree, paths) ==
  SetToSortSeq(UNION {SourcesAt(tree, path) : path \in paths}, LAMBDA a, b : a < b)

\* The rows that the index is built of, source by source.
CarRows(tree, paths) ==
  LET dirs == CarSourceDirs(tree, paths) IN FlattenSeq([k \in DOMAIN dirs |-> tree[dirs[k]].rows])

=============================================================================
