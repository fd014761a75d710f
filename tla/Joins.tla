------------------------------- MODULE Joins --------------------------------
(***************************************************************************)
(* byakugan stix-behaviour (exchange.behaviour): the firings of the detection   *)
(* lanes joined to the flows, processes and files of a tree, as sightings of        *)
(* ATT&CK techniques over the entity that was matched.  The rows of the tree are     *)
(* the index: they are in the order they are read.                                     *)
(***************************************************************************)
EXTENDS Lanes

CarHost(row) == FirstOf(row, <<"hostname", "fqdn">>)

RowsOf(car, object) == SelectSeq(car, LAMBDA r : r["car_object"] = object /\ Has(r, "guid"))

Ends(row) == {Get(row, "src_ip"), Get(row, "dest_ip")} \cap IsAddress

SamePid(row, pid) == pid # <<>> /\ ToInt(Get(row, "pid")) = pid

\* What a key of an index that keeps the first row for it finds.
FirstRow(rows) == Upto(rows, 1)

FlowsOf(car, ips) ==
  LET flows == RowsOf(car, "flow")
      pair  == SelectSeq(flows, LAMBDA r : Cardinality(Ends(r)) = 2 /\ Ends(r) = {ips[k] : k \in DOMAIN ips})
  IN  IF pair # <<>> THEN pair
      ELSE FlattenSeq([k \in DOMAIN ips |-> SelectSeq(flows, LAMBDA r : ips[k] \in Ends(r))])

OnHost(rows, host, pid) ==
  FirstRow(SelectSeq(rows, LAMBDA r : Lower(CarHost(r)) = Lower(host) /\ SamePid(r, pid)))

\* The guid of the process, or else the process id on its host.
ProcessOf(car, det) ==
  LET rows == RowsOf(car, "process")
      own  == FirstRow(SelectSeq(rows, LAMBDA r : det.guid # "" /\ Lower(r["guid"]) = Lower(det.guid)))
  IN  IF own # <<>> \/ det.host = "" THEN own ELSE OnHost(rows, det.host, det.pid)

\* A file with one of the hashes, or else the process on its host, or on any host if
\* that one has no such process.
FileOrProcess(car, det) ==
  LET files == RowsOf(car, "file")
      rows  == RowsOf(car, "process")
      Hashed(h) == FirstRow(SelectSeq(files, LAMBDA r :
                     \E f \in {"sha256_hash", "sha1_hash", "md5_hash"} : Lower(Get(r, f)) = Lower(h)))
      own   == FlattenSeq([k \in DOMAIN det.hashes |-> Hashed(det.hashes[k])])
      known == IF det.host = "" THEN <<>> ELSE OnHost(rows, det.host, det.pid)
  IN  IF own # <<>> THEN own
      ELSE IF known # <<>> THEN known ELSE SelectSeq(rows, LAMBDA r : SamePid(r, det.pid))

\* The rows that a firing touches, one for a guid.
Match(car, det) ==
  LET found == CASE det.source = "suricata" -> FlowsOf(car, det.ips)
                 [] det.source = "hayabusa" -> ProcessOf(car, det)
                 [] OTHER                   -> FileOrProcess(car, det)
  IN  FlattenSeq([k \in DOMAIN found |->
        IF \E j \in 1..(k - 1) : found[j]["guid"] = found[k]["guid"] THEN <<>> ELSE <<found[k]>>])

-----------------------------------------------------------------------------
\* The entity as one observation: of a flow, what it links and the name it went to.
EntityObservation(row) ==
  LET when  == Time(row)
      src   == IpAddress(Get(row, "src_ip"))
      dst   == IpAddress(Get(row, "dest_ip"))
      ends  == SelectSeq(<<src, dst>>, LAMBDA a : a.value \in IsAddress)
      link  == IF Len(ends) < 2 THEN <<>>
               ELSE <<NetworkTraffic(src.id, dst.id, Get(row, "dest_port"), <<"ipv4">>)>>
      name  == Get(row, "dest_fqdn")
      names == IF name \in IsDomain /\ dst.value \in IsAddress THEN <<DomainName(Lower(name), dst.id)>> ELSE <<>>
      graph == ends \o link \o names
      image == BaseName(FirstOf(row, <<"exe", "image_path", "file_path", "file_name">>))
      hash  == FirstOf(row, <<"md5_hash", "sha1_hash", "sha256_hash">>)
      parts == IF row["car_object"] = "flow" THEN (IF ends = <<>> THEN <<>> ELSE graph)
               ELSE IF image = "" /\ hash = "" THEN <<>> ELSE <<FileObservable(image, hash)>>
      kind  == IF row["car_object"] = "flow" THEN "network" ELSE row["car_object"]
  IN  IF when = 0 \/ parts = <<>> THEN <<>>
      ELSE Append(parts, ObservedData(row["guid"], kind, [k \in DOMAIN parts |-> parts[k].id], when))

EntitySighting(det, row, tid, observed) ==
  LET when == IF det.timestamp # 0 THEN det.timestamp ELSE Time(row)
      host == CarHost(row)
  IN  SightingObject(<<det.id, row["guid"], tid>>, PatternOf(tid), when, when, when, when, <<observed>>,
                     IF host = "" THEN <<>> ELSE <<HostIdentity(host).id>>)

\* A later firing of the same rule on the same entity leaves the sighting as it is,
\* and is counted.
EntityObjects(state, det, row) ==
  LET parts  == EntityObservation(row)
      tids   == SelectSeq(Distinct(det.techniques), Resolves)
      host   == IF CarHost(row) = "" THEN <<>> ELSE <<HostIdentity(CarHost(row))>>
      seen   == parts[Len(parts)].id
  IN  IF parts = <<>> THEN Skipped(state, "entity_not_observable")
      ELSE [state EXCEPT !.objs = PutObjects(@, parts \o host \o
                                    [k \in DOMAIN tids |-> EntitySighting(det, row, tids[k], seen)]),
                         !.sightings = @ + Len(tids)]

BehaviourObjects(dets, car) ==
  LET Join(state, det) ==
        LET rows == Match(car, det)
        IN  IF rows = <<>> THEN Skipped(state, "no_car_entity")
            ELSE IF SelectSeq(det.techniques, Resolves) = <<>> THEN Skipped(state, "joined_no_technique")
            ELSE FoldLeft(LAMBDA s, r : EntityObjects(s, det, r), state, rows)
  IN  FoldLeft(Join, NoObjects, dets)

=============================================================================
