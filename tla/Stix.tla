-------------------------------- MODULE Stix --------------------------------
(***************************************************************************)
(* The STIX projection of one source (byakugan/stix.py): rows, edges, inferred *)
(* nodes and behaviour hits become the objects of a bundle.  A bundle is a        *)
(* function from ids to objects; an object maps a property to the values it was    *)
(* given in their order: the first is the value, the others are its conflicts or,    *)
(* in a list, its further elements.  Roles and creation times are left out.            *)
(***************************************************************************)
EXTENDS Derive, Behaviour

CONSTANTS
  StixHeader,   \* _HEADER: the columns an observation has properties for
  DirName,      \* the directory of a path, where it has one
  AddressOf,    \* the renderings of addresses, to <<family, address>>
  Formed,       \* by column, the values of the form that its property asks for
  AttackIndex,  \* the ATT&CK ids the index resolves, to those in force
  Retired       \* RETIRED_ANALYTICS

None == <<>>
NoProps == <<>>
NoKey == "no key"

\* Ids: the same content is the same object in every case; an instance is one of its
\* case, and has none if it is keyed by a row without a guid.
Global(type, key) == <<"global", type, key>>
Catalogue(type, key) == <<"catalogue", type, key>>
OfCase(type, host, key) == IF NoKey \in ToSet(key) THEN None ELSE <<"case", type, host, key>>

Host(row) == Get(row, "source_host")
Key(row) == OrElse(row, "guid", NoKey)

-----------------------------------------------------------------------------
(* The store of objects *)

\* A property that is missing is filled; a further value is kept behind the first.
Merged(old, new) ==
  [f \in DOMAIN old \cup DOMAIN new |->
     IF f \notin DOMAIN old THEN new[f] ELSE IF f \notin DOMAIN new THEN old[f]
     ELSE Distinct(old[f] \o new[f])]

Object(id, props) == [id |-> id, props |-> [f \in {g \in DOMAIN props : props[g] # <<>>} |-> props[f]]]

Store(objs, part) ==
  IF part.id = None THEN objs
  ELSE (part.id :> IF part.id \in DOMAIN objs THEN Merged(objs[part.id], part.props)
                   ELSE part.props) @@ objs

StoreAll(objs, parts) == FoldLeft(Store, objs, parts)

\* A list of parts ends with the object it is about.
Ref(parts) == IF parts = <<>> THEN <<>>
              ELSE IF Last(parts).id = None THEN <<>> ELSE <<Last(parts).id>>

IdOf(parts) == IF parts = <<>> THEN None ELSE Last(parts).id

-----------------------------------------------------------------------------
(* The values of columns *)

Hashes == <<"md5_hash", "sha1_hash", "sha256_hash">>

Numbers == {"pid", "ppid", "target_pid", "src_port", "dest_port", "local_port", "remote_port",
            "out_bytes", "in_bytes", "response_body_bytes", "request_body_bytes", "attachment_size"}

Number(row, f) == IF Get(row, f) \in DOMAIN PidOf THEN <<PidOf[row[f]]>> ELSE <<>>

\* What a property takes from a column; a value it cannot take is not consumed.
Taken(row, f) ==
  IF ~Has(row, f) THEN <<>>
  ELSE IF f \in Numbers THEN Number(row, f)
  ELSE IF f \in ToSet(Hashes)
  THEN IF Accepts("hash", row[f]) THEN <<Normalize("hash", row[f])>> ELSE <<>>
  ELSE IF f \in DOMAIN Formed /\ row[f] \notin Formed[f] THEN <<>>
  ELSE Values(row, f)

Columns(row, fields) == [f \in fields |-> Taken(row, f)]

Consumed(row, fields) == {f \in fields : Taken(row, f) # <<>>}

-----------------------------------------------------------------------------
(* Objects that are their content *)

Valued(type, value) == IF value = "" THEN <<>>
                         ELSE <<Object(Global(type, <<value>>), [value |-> <<value>>])>>

ContentAll(type, values) == FlattenSeq([k \in DOMAIN values |-> Valued(type, values[k])])

Address(row, f) == IF Get(row, f) \in DOMAIN AddressOf
                   THEN Valued(AddressOf[row[f]][1], AddressOf[row[f]][2]) ELSE <<>>

Addresses(row) == Address(row, "src_ip") \o Address(row, "dest_ip")

Some(v) == IF v = "" THEN <<>> ELSE <<v>>

\* An account: the same everywhere by its real SID, else one of the host.
User(row, ident, name) ==
  IF ident = "" /\ name = "" THEN <<>>
  ELSE IF ident # "" /\ Accepts("sid", ident)
  THEN <<Object(Global("user-account", <<Normalize("sid", ident)>>),
                [user_id |-> <<Normalize("sid", ident)>>, display_name |-> Some(name)])>>
  ELSE <<Object(OfCase("user-account", Host(row), IF ident # "" THEN <<"id", ident>> ELSE <<"name", name>>),
                [user_id |-> Some(ident), account_login |-> Some(name)])>>

UserOf(row, f, g) == User(row, Get(row, f), Get(row, g))

\* One hash names a file: the first in the order of preference.
ContentFile(hashes) ==
  LET k == SelectInSeq(Hashes, LAMBDA f : f \in DOMAIN hashes)
  IN  IF k = 0 THEN None ELSE Global("file", <<Hashes[k], hashes[Hashes[k]]>>)

-----------------------------------------------------------------------------
(* The content layer *)

HashNodes(list) == {[node |-> m.node, field |-> m.field, value |-> Normalize("hash", m.row[m.field])] :
                      m \in {n \in ToSet(Mentions(list)) : n.field \in ToSet(Hashes)}}

\* Nodes that some record mentions together are of one file.
HashGroups(list) ==
  LET nodes == HashNodes(list)
      with(ref) == {n \in nodes : <<ref[1], ref[2], n.node, n.field>> \in EntityRefs(list)}
      join(set, gs) == IF set = {} THEN gs
                       ELSE {g \in gs : g \cap set = {}} \cup {UNION {g \in gs : g \cap set # {}}}
  IN  FoldSet(join, {{n} : n \in nodes}, {with(ref) : ref \in EntityRefs(list)})

\* One value of each algorithm; a second one is a conflict that is only counted.
GroupHashes(group) ==
  [f \in {n.field : n \in group} |-> CHOOSE v \in {n.value : n \in {m \in group : m.field = f}} : TRUE]

\* From the content nodes to the ids of the objects they are.
NodeContent(list) ==
  LET group(n) == CHOOSE g \in HashGroups(list) : n \in g
      hash == [id \in {n.node : n \in HashNodes(list)} |->
                 ContentFile(GroupHashes(group(CHOOSE n \in HashNodes(list) : n.node = id)))]
      sids == {m \in ToSet(Mentions(list)) : m.field \notin ToSet(Hashes)}
      account == [id \in {m.node : m \in sids} |->
                    LET m == CHOOSE n \in sids : n.node = id
                    IN  Global("user-account", <<Normalize("sid", m.row[m.field])>>)]
  IN  hash @@ account

\* An account goes by the first user name of a row that mentions it.
ContentObjects(list) ==
  LET files == {LET h == GroupHashes(g) IN Object(ContentFile(h), [f \in DOMAIN h |-> <<h[f]>>]) :
                  g \in HashGroups(list)}
      sids == SelectSeq(Mentions(list), LAMBDA m : m.field \notin ToSet(Hashes))
      account(m) ==
        LET of == SelectSeq(sids, LAMBDA n : n.node = m.node /\ Has(n.row, "user"))
            sid == Normalize("sid", m.row[m.field])
        IN  Object(Global("user-account", <<sid>>),
                   [user_id |-> <<sid>>, display_name |-> IF of = <<>> THEN <<>> ELSE <<of[1].row["user"]>>])
  IN  SetToSeq(files \cup {account(m) : m \in ToSet(sids)})

-----------------------------------------------------------------------------
(* Instances: files at paths, processes *)

\* MUTANT of ContentRef: by the hashes of the row alone.
ContentRefOwn(content, hashes) == IF hashes = <<>> THEN <<>> ELSE <<ContentFile(hashes)>>

\* The content file that the hashes belong to, by the nodes of the whole source.
ContentRef(content, hashes) ==
  LET k == SelectInSeq(Hashes, LAMBDA f : f \in DOMAIN hashes /\ Prefix[f] \o hashes[f] \in DOMAIN content)
  IN  IF k # 0 THEN <<content[Prefix[Hashes[k]] \o hashes[Hashes[k]]]>>
      ELSE IF hashes = <<>> THEN <<>> ELSE <<ContentFile(hashes)>>

HashesOf(row) == [f \in Consumed(row, ToSet(Hashes)) |-> Head(Taken(row, f))]

\* A file is keyed by its path, else by its name, else by the row.
FileAt(content, row, path, name, hashes, fallback, props) ==
  LET key == IF path # "" THEN <<"path", path>> ELSE IF name # "" THEN <<"name", name>> ELSE <<"row">> \o fallback
      dir == IF path \notin DOMAIN DirName THEN <<>>
             ELSE <<Object(OfCase("directory", Host(row), <<DirName[path]>>), [path |-> <<DirName[path]>>])>>
  IN  IF path = "" /\ name = "" /\ hashes = <<>> /\ Object(None, props).props = <<>> THEN <<>>
      ELSE dir \o <<Object(OfCase("file", Host(row), key),
                     [name |-> IF name # "" THEN <<name>> ELSE IF path # "" THEN <<BaseName(path)>> ELSE <<>>,
                      x_car_path |-> Some(path), parent_directory_ref |-> Ref(dir),
                      x_car_content_ref |-> ContentRef(content, hashes)]
                     @@ [f \in DOMAIN hashes |-> <<hashes[f]>>] @@ props)>>

\* Every row that names a process fills the same object.
ProcessAt(content, row, guid, props, path, name, hashes, imageProps) ==
  LET image == IF path = "" /\ name = "" /\ hashes = <<>> THEN <<>>
               ELSE FileAt(content, row, path, name, hashes, <<"process", guid>>, imageProps)
  IN  image \o <<Object(OfCase("process", Host(row), <<guid>>),
                        [x_car_entity_id |-> <<guid>>, image_ref |-> Ref(image)] @@ props)>>

-----------------------------------------------------------------------------
(* The builders: the parts of a row, its own object, and the columns they are made of *)

Build(main, others, columns) == [parts |-> others \o main, own |-> IdOf(main), columns |-> columns]

Signed == {"signer", "signature_valid"}

BuildProcess(content, row) ==
  LET parent == IF ~Has(row, "parent_guid") THEN <<>>
                ELSE ProcessAt(content, row, row["parent_guid"],
                       [pid |-> Taken(row, "ppid"), command_line |-> Taken(row, "parent_command_line")],
                       Get(row, "parent_image_path"), Get(row, "parent_exe"), <<>>, NoProps)
      said == IF Has(row, "parent_guid") THEN NoProps
              ELSE Columns(row, {"ppid", "parent_image_path", "parent_exe", "parent_command_line"})
      ident == IF Has(row, "sid") THEN "sid" ELSE "uid"
      user == UserOf(row, ident, "user")
      props == Columns(row, {"pid", "command_line", "current_working_directory", "integrity_level"})
               @@ said @@ [creator_user_ref |-> Ref(user), parent_ref |-> Ref(parent)]
      own == ProcessAt(content, row, OrElse(row, "owning_guid", Key(row)), props, Get(row, "image_path"),
                       Get(row, "exe"), HashesOf(row), Columns(row, Signed))
      accessed == Get(row, "car_action") = "access" /\ Has(row, "target_guid")
      target == IF ~accessed THEN <<>>
                ELSE ProcessAt(content, row, row["target_guid"], [pid |-> Taken(row, "target_pid")],
                               Get(row, "target_name"), "", <<>>, NoProps)
  IN  [parts |-> parent \o user \o own \o target, own |-> IdOf(own),
       columns |-> {"pid", "ppid", "command_line", "current_working_directory", "integrity_level",
                    "parent_guid", "parent_command_line", "parent_image_path", "parent_exe", ident, "user",
                    "image_path", "exe"} \cup Signed \cup ToSet(Hashes)
                   \cup (IF accessed THEN {"target_guid", "target_pid", "target_name"} ELSE {})]

\* By object: the columns of the path, of the name and of the other properties of a file.
FileColumns ==
  [file |-> [path |-> "file_path", name |-> "file_name", props |-> {"creation_time", "mime_type"} \cup Signed],
   module |-> [path |-> "module_path", name |-> "module_name", props |-> {"base_address"} \cup Signed],
   driver |-> [path |-> "image_path", name |-> "module_name", props |-> {"base_address"} \cup Signed]]

BuildFile(content, row) ==
  LET obj == row["car_object"]
      by == FileColumns[obj]
      file == FileAt(content, row, Get(row, by.path), Get(row, by.name), HashesOf(row), <<obj, Key(row)>>,
                     Columns(row, by.props))
      users == IF obj = "file" THEN UserOf(row, "owner_uid", "owner") \o UserOf(row, "uid", "user") ELSE <<>>
  IN  Build(file, users, {by.path, by.name} \cup by.props \cup ToSet(Hashes)
              \cup (IF obj = "file" THEN {"owner_uid", "owner", "uid", "user"} ELSE {}))

Own(row, type, key, props) == <<Object(OfCase(type, Host(row), key), props)>>
RowKey(row) == <<row["car_object"], Key(row)>>

BuildRegistry(content, row) ==
  LET user == User(row, "", Get(row, "user"))
      valued == Has(row, "value") \/ Has(row, "data")
      columns == {"key"} \cup (IF valued THEN {"value", "data", "type"} ELSE {})
      key == IF Has(row, "key") THEN <<"key", row["key"]>> ELSE <<"row">> \o RowKey(row)
  IN  Build(Own(row, "windows-registry-key", key, Columns(row, columns) @@ [creator_user_ref |-> Ref(user)]),
            user, columns \cup {"user"})

\* By object: the columns of the two addresses and of the other properties of a connection.
TrafficColumns ==
  [flow |-> [src |-> "src_ip", dst |-> "dest_ip",
             props |-> {"src_port", "dest_port", "transport_protocol", "application_protocol", "out_bytes",
                        "in_bytes", "start_time", "end_time"}],
   socket |-> [src |-> "local_address", dst |-> "remote_address",
               props |-> {"local_port", "remote_port", "protocol", "family"}]]

BuildTraffic(content, row) ==
  LET by == TrafficColumns[row["car_object"]]
      src == Address(row, by.src)
      dst == Address(row, by.dst)
      resolved == {f \in {by.src, by.dst} : Address(row, f) # <<>>}
  IN  Build(Own(row, "network-traffic", RowKey(row),
                Columns(row, by.props) @@ [src_ref |-> Ref(src), dst_ref |-> Ref(dst)]),
            src \o dst, by.props \cup resolved)

WebSchemes == {"http", "https"}

\* The fields of a request have a place only if the request is known; its scheme is taken
\* off the row, and is the protocol if it is one of the web's.
BuildHttp(content, row) ==
  LET src == Address(row, "requester_ip_address")
      domain == Valued("domain-name", Get(row, "url_domain"))
      url == Valued("url", Get(row, "url_full"))
      scheme == Lower(Get(row, "url_scheme"))
      columns == {"url_remainder", "response_status_code", "response_body_bytes"} \cup
                 (IF Has(row, "url_remainder") \/ Has(row, "url_full")
                  THEN {"http_version", "user_agent_full", "request_referrer", "request_body_bytes"} ELSE {})
  IN  Build(Own(row, "network-traffic", RowKey(row),
                Columns(row, columns)
                @@ [protocols |-> <<IF scheme \in WebSchemes THEN scheme ELSE "http">>,
                    src_ref |-> Ref(src), dst_ref |-> Ref(domain), x_car_url_ref |-> Ref(url)]),
            src \o domain \o url, columns \cup {"url_scheme", "url_domain", "url_full"}
              \cup (IF src = <<>> THEN {} ELSE {"requester_ip_address"}))

\* The row is about the account: there is no object of its own.
BuildLogon(content, row) ==
  LET user == UserOf(row, "uid", "user")
      target == UserOf(row, "target_uid", "target_user")
      resolved == {f \in {"src_ip", "dest_ip"} : Address(row, f) # <<>>}
  IN  IF row["car_object"] = "authentication"
      THEN [Build(user, target, {"uid", "user", "target_uid", "target_user"})
              EXCEPT !.own = IF target # <<>> THEN IdOf(target) ELSE @]
      ELSE Build(user, Addresses(row), {"uid", "user"} \cup resolved)

BuildService(content, row) ==
  LET user == UserOf(row, "uid", "user")
      image == IF ~Has(row, "image_path") /\ ~Has(row, "exe") THEN <<>>
               ELSE FileAt(content, row, Get(row, "image_path"), Get(row, "exe"), <<>>, RowKey(row), NoProps)
      key == IF Has(row, "name") THEN <<"service", row["name"]>> ELSE <<"row">> \o RowKey(row)
      columns == {"name", "command_line", "pid"}
  IN  Build(Own(row, "process", key, Columns(row, columns)
                  @@ [creator_user_ref |-> Ref(user), image_ref |-> Ref(image)]),
            user \o image, columns \cup {"image_path", "exe", "uid", "user"})

BuildThread(content, row) ==
  LET user == UserOf(row, "uid", "user")
      module == IF ~Has(row, "start_module") THEN <<>>
                ELSE FileAt(content, row, row["start_module"], "", <<>>, RowKey(row), NoProps)
      columns == {"src_pid", "src_tid", "tgt_pid", "tgt_tid", "start_address", "start_function",
                  "start_module_name", "stack_base", "stack_limit", "user_stack_base", "user_stack_limit"}
  IN  Build(Own(row, "x-car-thread", <<Key(row)>>, Columns(row, columns)
                  @@ [creator_user_ref |-> Ref(user), start_module_ref |-> Ref(module)]),
            user \o module, columns \cup {"start_module", "uid", "user"})

BuildEmail(content, row) ==
  LET addr(f) == ContentAll("email-addr", Values(row, f))
      links == ContentAll("url", Values(row, "message_links"))
      ids(parts) == [k \in DOMAIN parts |-> parts[k].id]
      about == Columns(row, {"attachment_size", "attachment_mime_type"})
      attachment == IF ~Has(row, "attachment_name") THEN <<>>
                    ELSE FileAt(content, row, "", row["attachment_name"], <<>>, RowKey(row), about)
      columns == {"subject", "date", "message_body"}
  IN  Build(Own(row, "email-message", <<Key(row)>>, Columns(row, columns)
                  @@ [from_ref |-> Ref(addr("from")), sender_ref |-> Ref(addr("return_address")),
                      to_refs |-> ids(addr("to")), x_car_link_refs |-> ids(links),
                      x_car_attachment_ref |-> Ref(attachment)]),
            addr("from") \o addr("return_address") \o addr("to") \o attachment \o links \o Addresses(row),
            columns \cup {"from", "return_address", "to", "message_links"}
              \cup (IF attachment = <<>> THEN {} ELSE {"attachment_name", "attachment_mime_type", "attachment_size"})
              \cup {f \in {"src_ip", "dest_ip"} : Address(row, f) # <<>>})

BuildRow(content, row) ==
  LET obj == row["car_object"]
  IN  CASE obj = "process" -> BuildProcess(content, row)
        [] obj \in DOMAIN FileColumns -> BuildFile(content, row)
        [] obj = "registry" -> BuildRegistry(content, row)
        [] obj \in DOMAIN TrafficColumns -> BuildTraffic(content, row)
        [] obj = "http" -> BuildHttp(content, row)
        [] obj = "service" -> BuildService(content, row)
        [] obj = "thread" -> BuildThread(content, row)
        [] obj = "email" -> BuildEmail(content, row)
        [] OTHER -> BuildLogon(content, row)

-----------------------------------------------------------------------------
(* One row *)

\* The columns that describe the acting process, where its guid is known.
Acting(obj) == CASE obj = "driver" -> {"pid"}
                 [] obj = "file" -> {"pid", "ppid", "image_path"}
                 [] obj = "flow" -> {"pid", "ppid", "exe", "image_path"}
                 [] obj \in {"module", "registry", "socket"} -> {"pid", "image_path"}
                 [] obj = "thread" -> {"src_pid"}
                 [] OTHER -> {}

Acted(row) == Has(row, "owning_guid") /\ row["car_object"] # "process"

ActingParts(content, row) ==
  LET columns == Acting(row["car_object"])
      text(f) == IF f \in columns THEN Get(row, f) ELSE ""
      pid == IF "src_pid" \in columns THEN Number(row, "src_pid")
             ELSE IF "pid" \in columns THEN Number(row, "pid") ELSE <<>>
      props == [pid |-> pid, x_car_ppid |-> IF "ppid" \in columns THEN Number(row, "ppid") ELSE <<>>]
  IN  IF ~Acted(row) THEN <<>>
      ELSE ProcessAt(content, row, row["owning_guid"], props, text("image_path"), text("exe"), <<>>, NoProps)

\* A row that is about nothing else is a record.
RecordOf(row) == Own(row, "x-car-record", RowKey(row),
                     [x_car_object |-> <<row["car_object"]>>, x_car_event_id |-> Some(Get(row, "guid"))])

\* The native bag, under its own name.
IsNative(f) == f \in Native

\* MUTANT of Leftovers: a column that some builder takes is taken from every row.
LeftoversByName(row, columns) == DOMAIN row \ (columns \cup StixHeader \cup {g \in DOMAIN row : IsNative(g)})

\* What no object took stays with the observation.
Leftovers(row, columns) ==
  DOMAIN row \ (Consumed(row, columns) \cup StixHeader \cup {g \in DOMAIN row : IsNative(g)})

ObservationId(row) ==
  <<"case", "observed-data", Host(row),
    <<row["car_object"], row["guid"], Get(row, "car_action"), Get(row, "target_guid"), Get(row, "access_level")>>,
    Time(row)>>

Observation(row, refs, columns) ==
  LET kept == Leftovers(row, columns)
      entity == IF Has(row, "owning_guid") THEN row["owning_guid"]
                ELSE IF row["car_object"] = "process" THEN row["guid"] ELSE ""
  IN  Object(ObservationId(row),
        [object_refs |-> refs, x_car_event_id |-> <<row["guid"]>>, x_car_process_entity_id |-> Some(entity),
         x_car_source_artefact |-> Some(Get(row, "source_artefact")),
         x_car_link_confidence |-> Some(Get(row, "link_confidence"))]
        @@ [f \in kept |-> <<row[f]>>]
        @@ [f \in {g \in DOMAIN row : IsNative(g)} |-> <<row[f]>>])

\* The projection so far: the objects, and for a <<host, object, guid>> its entity
\* and its last observation.
Fresh(list) == [content |-> NodeContent(list), objs |-> StoreAll(<<>>, ContentObjects(list)),
                primary |-> <<>>, obs |-> <<>>]

\* The content nodes that the records of the row's identity mention.
ContentRefs(p, list, row) ==
  SetToSeq({p.content[ref[3]] : ref \in {r \in EntityRefs(list) : r[1] = Host(row) /\ r[2] = End(row)}})

\* The processes among the parts that their guid alone names.
NamedProcesses(row, parts) ==
  [e \in {<<Host(row), "process", part.id[4][1]>> :
            part \in {q \in ToSet(parts) : q.id # None /\ q.id[2] = "process" /\ Len(q.id[4]) = 1}} |->
     OfCase("process", e[1], <<e[3]>>)]

WithParts(p, row, parts) ==
  [p EXCEPT !.objs = StoreAll(@, parts), !.primary = @ @@ NamedProcesses(row, parts)]

\* The observation of the row; the last row of a guid is the one that is referred to.
WithObservation(p, me, observation) ==
  [p EXCEPT !.objs = Store(@, observation), !.obs = (me :> observation.id) @@ @]

\* A row without a guid is no entity, one without a time no observation.
WithEntity(p, row, me, own, observation) ==
  IF ~Has(row, "guid") THEN p
  ELSE IF ~Has(row, "timestamp") THEN [p EXCEPT !.primary = @ @@ (me :> own)]
  ELSE WithObservation([p EXCEPT !.primary = @ @@ (me :> own)], me, observation)

RefsOf(parts) == SelectSeq([k \in DOMAIN parts |-> parts[k].id], LAMBDA id : id # None)

WithBuilt(p, list, row, parts, own, columns) ==
  WithEntity(WithParts(p, row, parts), row, <<Host(row), row["car_object"], Get(row, "guid")>>, own,
             Observation(row, Distinct(RefsOf(parts) \o ContentRefs(p, list, row)), columns))

WithRow(p, list, row, built) ==
  LET record == IF built.own = None THEN RecordOf(row) ELSE <<>>
  IN  WithBuilt(p, list, row,
                built.parts \o record \o ActingParts(p.content, row),
                IF built.own = None THEN IdOf(record) ELSE built.own,
                built.columns \cup (IF Acted(row) THEN Acting(row["car_object"]) ELSE {}))

ProjectRow(p, list, row) == WithRow(p, list, row, BuildRow(p.content, row))

-----------------------------------------------------------------------------
(* Inferred nodes and relationships *)

NodeId(host, id) == OfCase("x-car-inferred-node", host, <<id>>)

\* A node names the observations that corroborate it.
InferredObject(p, host, id, props) ==
  LET by == {o \in DOMAIN p.objs : o[2] = "observed-data" /\ o[3] = host
                                   /\ p.objs[o].x_car_event_id[1] \in props.corroborated_by}
  IN  Object(NodeId(host, id),
        [x_car_node_id |-> <<id>>, x_car_object |-> <<props.object>>,
         x_car_corroborating_refs |-> SetToSeq(by)])

ProjectInferred(p, node) ==
  [p EXCEPT !.objs = Store(@, InferredObject(p, node.source_host, node.node_id, node))]

\* MUTANT of EndOf: the end of an event is its account.
EndOfEntity(p, host, end, inferred) ==
  LET me == <<host, end[1], end[2]>>
      process == OfCase("process", host, <<end[2]>>)
  IN  IF inferred THEN NodeId(host, end[2])
      ELSE IF end[1] = "user_account" /\ end[2] \in DOMAIN p.content THEN p.content[end[2]]
      ELSE IF me \in DOMAIN p.primary THEN p.primary[me]
      ELSE IF end[1] = "process" THEN process ELSE None

\* What an end is in the bundle: events are their observations, things their objects.
EndOf(p, host, end, inferred) ==
  LET me == <<host, end[1], end[2]>>
      process == OfCase("process", host, <<end[2]>>)
  IN  IF end[2] = "" THEN None
      ELSE IF inferred THEN NodeId(host, end[2])
      ELSE IF end[1] = "user_account" /\ end[2] \in DOMAIN p.content THEN p.content[end[2]]
      ELSE IF end[1] \in {"authentication", "user_session"}
      THEN IF me \in DOMAIN p.obs THEN p.obs[me] ELSE None
      ELSE IF me \in DOMAIN p.primary THEN p.primary[me]
      ELSE IF end[1] = "process" /\ process \in DOMAIN p.objs THEN process ELSE None

\* An end that only the edge names as inferred is described from the edge.
WithNode(p, e, end, inferred) ==
  IF ~inferred \/ end[2] = "" THEN p
  ELSE IF NodeId(e.source_host, end[2]) \in DOMAIN p.objs THEN p
  ELSE [p EXCEPT !.objs = Store(@, InferredObject(p, e.source_host, end[2],
                                                  [object |-> end[1], corroborated_by |-> {}]))]

EdgeId(e, s, t) == <<"case", "relationship", <<e.class, e.relationship, e.method>>, s, t, e.timestamp>>

ProjectEdge(p, e) ==
  LET q == WithNode(WithNode(p, e, e.source, e.inferred_end = "source"), e, e.target, e.inferred_end = "target")
      s == EndOf(q, e.source_host, e.source, e.inferred_end = "source")
      t == EndOf(q, e.source_host, e.target, e.inferred_end = "target")
  IN  IF e.relationship = "" THEN p
      ELSE IF s = None \/ t = None THEN q
      ELSE [q EXCEPT !.objs = Store(@, Object(EdgeId(e, s, t),
               [relationship_type |-> <<e.relationship>>, source_ref |-> <<s>>, target_ref |-> <<t>>,
                x_car_confidence |-> Some(e.confidence)]
               @@ [f \in DOMAIN e.properties |-> <<e.properties[f]>>]))]

\* An observation also refers to the relationships between what it refers to.
ConnectObservations(objs) ==
  LET relations == {r \in DOMAIN objs : r[2] = "relationship"}
      between(refs) == {r \in relations : {objs[r].source_ref[1], objs[r].target_ref[1]} \subseteq ToSet(refs)}
      refsOf(id) == OrElse(objs[id], "object_refs", <<>>)
  IN  [id \in DOMAIN objs |->
         IF id[2] # "observed-data" \/ between(refsOf(id)) = {} THEN objs[id]
         ELSE [objs[id] EXCEPT !.object_refs = Distinct(@ \o SetToSeq(between(@)))]]

-----------------------------------------------------------------------------
(* The behaviour layer *)

\* The ids of the techniques and subtechniques that an analytic covers.
CoverageIds(an) == Distinct(an.coverage)

IndicatorId(id) == Catalogue("indicator", <<id>>)

AttackPattern(tid) == <<"mitre", "attack-pattern", <<AttackIndex[tid]>>>>

Indicates(an, tid) ==
  Object(Catalogue("relationship", <<"indicates", an.id, tid>>),
         [relationship_type |-> <<"indicates">>, source_ref |-> <<IndicatorId(an.id)>>,
          target_ref |-> <<AttackPattern(tid)>>])

\* A sighting is one of its analytic over the observation of the row.
Sighting(p, hit) ==
  LET me == <<hit.host, hit.object, hit.guid>>
  IN  Object(<<"case", "sighting", <<hit.analytic, hit.guid, hit.clause>>, hit.timestamp>>,
        [sighting_of_ref |-> <<IndicatorId(hit.analytic)>>,
         x_car_action |-> <<hit.action>>, x_car_event_id |-> Some(hit.guid),
         observed_data_refs |-> IF me \in DOMAIN p.obs THEN <<p.obs[me]>> ELSE <<>>,
         where_sighted_refs |-> IF hit.host = "" THEN <<>> ELSE <<OfCase("identity", hit.host, <<>>)>>])

HitParts(p, hit) ==
  LET an == CHOOSE a \in ToSet(Analytics) : a.id = hit.analytic
      covered == SelectSeq(CoverageIds(an), LAMBDA tid : tid \in DOMAIN AttackIndex)
  IN  <<Object(IndicatorId(an.id), [x_car_analytic |-> <<an.id>>])>>
      \o [k \in DOMAIN covered |-> Indicates(an, covered[k])]
      \o (IF hit.host = "" THEN <<>> ELSE <<Object(OfCase("identity", hit.host, <<>>), [name |-> <<hit.host>>])>>)
      \o <<Sighting(p, hit)>>

Tombstones == SetToSeq({Object(IndicatorId(id), [revoked |-> <<TRUE>>]) : id \in Retired})

-----------------------------------------------------------------------------
(* The bundle *)

\* An object that is its content says nothing of what it was seen with.
Pure(id) == id[1] = "global" /\ id[2] \in {"user-account", "file"}

Purified(objs) ==
  [id \in DOMAIN objs |->
     IF Pure(id) THEN [f \in DOMAIN objs[id] |-> <<Head(objs[id][f])>>] ELSE objs[id]]

\* The behaviour layer over the connected objects.
Flagged(p, hits) ==
  StoreAll(ConnectObservations(p.objs), FlattenSeq([k \in DOMAIN hits |-> HitParts(p, hits[k])]) \o Tombstones)

Entities(list) == FoldLeft(LAMBDA p, row : ProjectRow(p, list, row), Fresh(list), list)

Bundle(list, edges, nodes) ==
  LET inferred == FoldSet(LAMBDA n, p : ProjectInferred(p, n), Entities(list), nodes)
  IN  Purified(Flagged(FoldSet(LAMBDA e, p : ProjectEdge(p, e), inferred, edges),
                       SetToSeq(FlagRows(list))))
=============================================================================
