------------------------------ MODULE MCCascade ------------------------------
(***************************************************************************)
(* Cascade on cases of a few rows each, one family of rows at a time: every   *)
(* selection of rows of the family in every order, so that no pass can count    *)
(* on the order in which an artefact lists its records.                          *)
(***************************************************************************)
EXTENDS Cascade

MCPidOf == [v \in {"4", "0x4", "8"} |-> IF v = "8" THEN 8 ELSE 4]
MCCaseOf == [v \in {"H1", "0xA"} |-> IF v = "H1" THEN "h1" ELSE "0xa"]

MCHeader == {"timestamp", "car_action", "guid", "owning_guid", "volume_guid", "mac_address",
             "device_serial", "link_confidence", "source_artefact", "source_host"}
MCObjFields ==
  [o \in ToSet(Objects) |->
     CASE o = "process" -> {"exe", "image_path", "command_line", "user", "sid", "pid", "ppid",
                            "parent_exe", "parent_image_path", "parent_command_line", "sha256_hash",
                            "parent_guid", "target_guid", "access_level", "uid", "fqdn", "hostname",
                            "signer", "signature_valid"}
       [] o = "file" -> {"image_path", "user", "file_path", "sha256_hash", "md5_hash", "pid", "uid"}
       [] o = "flow" -> {"src_ip", "dest_ip", "src_fqdn", "dest_fqdn", "src_hostname", "user",
                         "exe", "application_protocol"}
       [] o = "http" -> {"hostname", "requester_ip_address", "url_scheme", "url_domain", "url_full",
                         "url_remainder", "response_body_bytes", "user_agent_full"}
       [] o = "thread" -> {"tgt_pid", "user"}
       [] o = "user_session" -> {"login_id", "user", "uid"}
       [] o = "authentication" -> {"uid", "user", "target_uid", "target_user"}
       [] o = "module" -> {"image_path", "pid", "base_address"}
       [] o = "driver" -> {"image_path", "pid"}
       [] o = "registry" -> {"key", "value", "type", "user", "pid", "image_path"}
       [] o = "service" -> {"name", "image_path", "pid", "uid"}
       [] o = "socket" -> {"local_address", "remote_address", "family", "pid", "local_port"}
       [] o = "email" -> {"from", "to", "attachment_name", "attachment_size", "src_ip"}
       [] OTHER -> {}]
MCNative ==
  {"native." \o k : k \in
     {"coalesced_sources", "coalesced_conflicts", "contributions", "contributed_by", "spindle_ref",
      "spindle_key", "spindle_scope", "ParentProcessGuid", "TargetProcessGuid",
      "target_process_guid", "target_process_link", "TargetLogonId", "SubjectLogonId",
      "target_session_guid", "target_session_link", "subject_session_guid", "subject_session_link",
      "SessionID", "session_login_guid", "session_logout_guid", "session_end", "uid", "flow_guid",
      "flow_link", "answers", "resp_fuids", "cert_chain_fps", "certificate.subject",
      "server_cert_subject", "executed_as_process_guid", "executed_as_process_link",
      "executed_as_process_count", "modifier_process_guid", "modifier_process_link", "volumes",
      "macs", "guids", "serials", "GrantedAccess"}}

MCDedupeKey == {"source_host", "car_object", "car_action", "target_guid", "access_level"}
MCOwnerFields == {"exe", "image_path", "command_line", "user", "sid", "fqdn", "hostname", "ppid"}
MCParentFields == [parent_exe |-> "exe", parent_image_path |-> "image_path",
                   parent_command_line |-> "command_line"]
MCFlowFields == [requester_ip_address |-> "src_ip", hostname |-> "src_hostname"]
MCCanonicalUser == [s \in {"S-1-5-18"} |-> "SYSTEM"]
MCUserCanon == [u \in {"localsystem"} |-> "SYSTEM"]
MCAliases == {"SYSTEM", "localsystem"}
MCWellKnownLuids == {"0x3e7"}
MCNullLuids == {"0x0"}
MCContributorsCap == 2
MCCanonicalId == [v \in {"{vol}", "vol"} |-> "vol"]

MCSpokeVerb == [s \in {<<"file", "create">>, <<"module", "load">>, <<"thread", "remote_create">>,
                       <<"authentication", "success">>, <<"user_session", "login">>} |->
                  CASE s[1] = "module" -> "loaded"
                    [] s[1] = "authentication" -> "requested"
                    [] OTHER -> "created"]
MCEdgeVerb == [parent_process |-> "created", process_access |-> "accessed",
               thread_injection |-> "accessed", file_executed |-> "executed",
               auth_session |-> "created", flow_contains |-> "contained", process_modify |-> "modified"]
MCAssociationProps ==
  (<<"module", "load">> :> [base_address |-> <<"base_address">>]) @@
  (<<"edge", "process_access">> :> [access_level |-> <<"access_level", "native.GrantedAccess">>])

MCAccepted == [sid |-> {"S-1-5-21-A", "S-1-5-21-B"}, hash |-> {"H1", "h1", "h2"},
               luid |-> {"0xA", "0xa", "0xC"}]
MCNormalized == {"hash", "luid"}
MCGuidForm == [offset |-> [o \in {"o1"} |-> "proc-o1"],
               luid |-> [l \in {"0xA", "0xa", "0xC"} |-> "user_session-" \o Lower(l)]]
MCPrefix == [f \in {"sha256_hash", "md5_hash", "sid", "uid", "target_uid"} |->
               CASE f = "sha256_hash" -> "sha256:" [] f = "md5_hash" -> "md5:" [] OTHER -> "sid:"]
MCContent == << [name |-> "hash", fields |-> <<"sha256_hash", "md5_hash">>,
                 properties |-> {"file_path", "image_path"}],
                [name |-> "sid", fields |-> <<"sid", "uid", "target_uid">>, properties |-> {"user"}] >>
MCLinks ==
  << [identity |-> "hash", source |-> "process", target |-> "file",
      pairs |-> <<[source |-> "sha256_hash", target |-> "sha256_hash"],
                  [source |-> "md5_hash", target |-> "md5_hash"]>>,
      prefer |-> [source |-> "image_path", target |-> "file_path"],
      relationship |-> "executed", confidence |-> "definitive", method |-> "shared_hash"],
     [identity |-> "guid", source |-> "http", target |-> "file",
      pairs |-> <<[source |-> "native.resp_fuids", target |-> "guid"]>>,
      prefer |-> [source |-> "", target |-> ""],
      relationship |-> "contained", confidence |-> "definitive", method |-> "shared_fuid"] >>
Actor(on, fields, targets, verb) ==
  [on |-> on, fields |-> fields, target_fields |-> targets, relationship |-> verb,
   confidence |-> "definitive", method |-> "actor_sid"]
MCActors == << Actor(<<"process", "create">>, <<"sid", "uid">>, <<>>, "created"),
               Actor(<<"user_session", "login">>, <<"uid">>, <<>>, "created"),
               Actor(<<"authentication">>, <<"uid">>, <<"target_uid">>, "attempted to authenticate") >>
Rule(name, identity, reference, linked, on, node, end, observed, verb, method, properties) ==
  [name |-> name, identity |-> identity, reference |-> reference, unless_linked |-> linked, on |-> on,
   node |-> node, end |-> end, observed |-> observed, relationship |-> verb, method |-> method,
   properties |-> properties]
MCReconstructs ==
  << Rule("owning_process", "guid", "owning_guid_native", "owning_guid", <<"spokes">>, "process",
          "source", <<>>, "spoke_owner", "native_guid", [pid |-> "owning_pid", image_path |-> "image_path"]),
     Rule("owning_process_memory", "offset", "owning_offset", "owning_guid", <<"spokes">>, "process",
          "source", <<>>, "spoke_owner", "memory_offset", [pid |-> "owning_pid"]),
     Rule("parent_process", "guid", "native.ParentProcessGuid", "parent_guid", <<"process", "create">>,
          "process", "source", <<>>, "created", "native_guid", [pid |-> "ppid"]),
     Rule("injection_target", "guid", "native.TargetProcessGuid", "native.target_process_guid",
          <<"thread">>, "process", "target", [field |-> "owning_guid", object |-> "process"],
          "accessed", "native_guid", [pid |-> "tgt_pid"]),
     Rule("auth_session_target", "luid", "native.TargetLogonId", "native.target_session_guid",
          <<"authentication", "success">>, "user_session", "target", <<>>, "created", "luid",
          [login_id |-> "native.TargetLogonId", uid |-> "target_uid"]) >>
MCListFields == {"native.resp_fuids", "to", "message_links"}
MCPropCap == 1

MCStixHeader == MCHeader \cup {"car_object"}
MCDirName == [p \in {"c/evil", "c/copy"} |-> "c"]
MCAddressOf == [v \in {"ip1", "ip2"} |-> IF v = "ip1" THEN <<"ipv4-addr", "ip1">> ELSE <<"ipv6-addr", "ip2">>]
MCFormed == [type |-> {"REG_SZ"}, family |-> {"AF_INET"}, integrity_level |-> {"high"}]
MCAttackIndex == [t \in {"T1", "T2.1"} |-> IF t = "T1" THEN "T9" ELSE t]
MCRetired == {"CAR-0"}

Test(field, op, values) == <<"test", [field |-> field, op |-> op, values |-> values]>>
MCAnalytics ==
  << [id |-> "CAR-1", searches |-> <<[variable |-> "p", words |-> <<"process", "create">>]>>,
      filters |-> <<[name |-> "f", subject |-> "p",
                     expr |-> <<Test("exe", "=", <<"a", "b">>), Test("pid", "!=", <<"8">>), <<"and">>>>]>>,
      joins |-> FALSE, temporal |-> FALSE, coverage |-> <<"T1", "T0", "T2.1">>],
     [id |-> "CAR-2", searches |-> <<[variable |-> "s", words |-> <<"user_session", "login">>]>>,
      filters |-> <<[name |-> "g", subject |-> "s", expr |-> <<Test("login_id", "match", <<"0x">>), <<"not">>>>],
                    [name |-> "h", subject |-> "s", expr |-> <<>>]>>,
      joins |-> FALSE, temporal |-> FALSE, coverage |-> <<"T1">>] >>
MCSearchOf == [w \in {<<"process", "create">>, <<"user_session", "login">>} |-> w]
MCGlobs == [g \in {"evil*"} |-> {"evil"}]
MCTextMatches == {<<"re", "0x", "0xA">>, <<"endswith", "x", "x">>, <<"contains", "a", "a">>}

Leaf(field, mods, values) == [field |-> field, mods |-> mods, values |-> values]
Part(quantifier, names) == <<"test", [quantifier |-> quantifier, them |-> names = {}, names |-> names]>>
SigmaRule(id, category, selections, condition) ==
  [id |-> id, status |-> "test", category |-> category, techniques |-> <<"T1">>,
   selections |-> selections, condition |-> condition]
MCSigmaRules ==
  << SigmaRule("S-1", "file_event",
       [a |-> <<<<Leaf("Image", {"endswith"}, <<"x">>), Leaf("EventID", {}, <<"11">>)>>>>,
        b |-> <<<<Leaf("TargetFilename", {}, <<"evil">>)>>, <<Leaf("TargetFilename", {"cidr"}, <<"c">>)>>>>],
       <<Part("any", {})>>),
     SigmaRule("S-2", "process_creation",
       [a |-> <<<<Leaf("Image", {}, <<"a", "b">>)>>>>,
        f |-> <<<<Leaf("ParentImage", {"contains", "all"}, <<"a">>)>>>>],
       <<Part("all", {"a"}), Part("all", {"f"}), <<"not">>, <<"and">>>>),
     SigmaRule("S-3", "process_access", [a |-> <<<<Leaf("GrantedAccess", {}, <<"r">>)>>>>],
       <<Part("all", {"a"}), Part("any", {"b"}), <<"or">>>>),
     SigmaRule("S-4", "dns_query", [a |-> <<>>], <<Part("any", {"a"})>>),
     SigmaRule("S-5", "file_event", [a |-> <<>>], <<Part("any", {"a"})>>) >>
MCLogSource == [file_event |-> <<"file", "create">>, process_creation |-> <<"process", "create">>,
                process_access |-> <<"process", "access">>]
MCSigmaColumns ==
  [o \in ToSet(Objects) |->
     CASE o = "file" -> [Image |-> <<"image_path">>, TargetFilename |-> <<"file_path">>]
       [] o = "process" -> [Image |-> <<"exe", "image_path">>, ParentImage |-> <<"parent_exe">>,
                            GrantedAccess |-> <<"access_level">>]
       [] OTHER -> <<>>]
MCSkippedRules == {"S-5"}
MCStoredColumns == [o \in ToSet(Objects) |-> MCHeader \cup MCObjFields[o]]

MCRecordKeys == {<<"file", "k">>}
MCHashed == {"file", "process", "module"}
MCImaged == {"process", "module"}
MCContentBucket == [process |-> "file", module |-> "file"]
MCBasename == [v \in {"c/evil"} |-> "evil"]
MCMeta == {"car_object", "link_confidence", "source_artefact"} \cup MCNative

MCVerbs == {"created", "loaded", "requested", "accessed", "executed", "contained", "modified",
            "attempted to authenticate"}
MCPropertyNames == {"base_address", "access_level"}
MCActions == [o \in ToSet(Objects) |->
                {"create", "terminate", "exit", "access", "load", "remote_create", "login", "logout",
                 "disconnect", "success", "start", "message", "get"}]
MCSidForms == {"S-1-5-18", "S-1-5-21-A", "S-1-5-21-B"}
MCIpForms == {"ip1", "ip2"}
MCPidForms == {"4", "8", "0x4"}
MCPortForms == {"80"}

-----------------------------------------------------------------------------
(* The rows *)

Ev(obj, action, guid, ts) ==
  Put([car_object |-> obj, car_action |-> action, source_artefact |-> "evtx", source_host |-> "h1"]
        @@ (IF ts = 0 THEN <<>> ELSE [timestamp |-> ts]), "guid", guid)

\* A process id that is used again, at the time its first user ends.
Lineage ==
  { Ev("process", "create", "A", 1) @@ [pid |-> "4", parent_pid |-> "8", sid |-> "S-1-5-18", exe |-> "a"],
    Ev("process", "create", "B", 2) @@ [pid |-> "8", ppid |-> "4", parent_pid |-> "4", exe |-> "b"],
    Ev("process", "create", "C", 3) @@ [pid |-> "0x4", ppid |-> "8", parent_pid |-> "8", exe |-> "c"],
    Ev("process", "terminate", "A", 2) @@ [pid |-> "4", owning_pid |-> "4", owning_guid_native |-> "A"],
    Ev("module", "load", "M", 2) @@ [owning_pid |-> "4", pid |-> "4", base_address |-> "base"],
    Ev("file", "create", "F", 3) @@ [owning_pid |-> "4", file_path |-> "c", user |-> "me"],
    Ev("thread", "remote_create", "T", 4) @@ [owning_guid_native |-> "A", owning_pid |-> "8", tgt_pid |-> "8"]
      @@ ("native.TargetProcessGuid" :> "B") }

\* Two processes that begin with one pid at one instant.
Twins ==
  { Ev("process", "create", "A", 2) @@ [pid |-> "4"],
    Ev("process", "create", "B", 2) @@ [pid |-> "0x4"],
    Ev("process", "create", "C", 4) @@ [pid |-> "8", parent_pid |-> "4"],
    Ev("module", "load", "M", 5) @@ [owning_pid |-> "4"],
    Ev("module", "load", "N", 0) @@ [owning_pid |-> "4"],
    Ev("thread", "remote_create", "T", 4) @@ [owning_pid |-> "4"] @@ ("native.TargetProcessGuid" :> "B") }

\* An end that is recorded twice, with a time and without.
EndedTwice ==
  { Ev("process", "create", "A", 2) @@ [pid |-> "4"],
    Ev("process", "terminate", "A", 0),
    Ev("process", "exit", "A", 3),
    Ev("process", "create", "C", 4) @@ [pid |-> "8", parent_pid |-> "4"],
    Ev("module", "load", "M", 5) @@ [owning_pid |-> "4"] }

\* Owners, parents and targets that no row is about.
Missing ==
  { Ev("process", "create", "A", 2) @@ [pid |-> "4", ppid |-> "8"] @@ ("native.ParentProcessGuid" :> "X"),
    Ev("file", "create", "F", 1) @@ [owning_guid_native |-> "X", owning_pid |-> "8", image_path |-> "x"],
    Ev("file", "create", "G", 3) @@ [owning_offset |-> "o1", owning_pid |-> "4"],
    Ev("thread", "remote_create", "T", 4) @@ [owning_guid_native |-> "A", tgt_pid |-> "8"]
      @@ ("native.TargetProcessGuid" :> "X"),
    Ev("process", "terminate", "X", 6),
    [Ev("process", "create", "X", 5) EXCEPT !["source_host"] = "h2"] @@ [pid |-> "8"],
    Ev("process", "access", "P", 5) @@ [owning_guid_native |-> "A", target_guid |-> "X", access_level |-> "r"] }

\* Records of one event from several artefacts, and records without an identity.
Repeated ==
  { Ev("process", "create", "A", 1) @@ [exe |-> "a"] @@ ("native.spindle_ref" :> "r1"),
    [Ev("process", "create", "A", 1) EXCEPT !["source_artefact"] = "plaso"] @@ [exe |-> "z", user |-> "me"],
    [Ev("process", "create", "A", 2) EXCEPT !["source_artefact"] = "memory"] @@ [pid |-> "4", exe |-> "y"],
    Ev("process", "access", "A", 3) @@ [owning_pid |-> "4", target_guid |-> "B", access_level |-> "r"],
    Ev("process", "access", "A", 3) @@ [owning_pid |-> "4", target_guid |-> "B", access_level |-> "w"],
    Ev("process", "create", "", 1) @@ [exe |-> "a"] }

Sessions ==
  { Ev("user_session", "login", "L", 1) @@ [login_id |-> "0xA", uid |-> "S-1-5-21-A", user |-> "me"]
      @@ ("native.SessionID" :> "1"),
    Ev("user_session", "logout", "O", 3) @@ [login_id |-> "0xa"],
    Ev("user_session", "disconnect", "D", 2) @@ ("native.SessionID" :> "1"),
    Ev("user_session", "logout", "", 4) @@ [login_id |-> "0xA"],
    Ev("authentication", "success", "U", 2)
      @@ [uid |-> "S-1-5-21-A", user |-> "me", target_uid |-> "S-1-5-21-B", target_user |-> "you"]
      @@ ("native.TargetLogonId" :> "0xa") @@ ("native.SubjectLogonId" :> "0x3e7"),
    Ev("authentication", "success", "V", 2) @@ [target_uid |-> "S-1-5-21-A"]
      @@ ("native.TargetLogonId" :> "0xC") @@ ("native.SubjectLogonId" :> "0x0"),
    [Ev("authentication", "success", "W", 4) EXCEPT !["source_host"] = "h2"]
      @@ [target_uid |-> "S-1-5-21-B"] @@ ("native.TargetLogonId" :> "0xC") }

\* A LUID and a session id that two logins go by.
Reused ==
  { Ev("user_session", "login", "L", 1) @@ [login_id |-> "0xA"] @@ ("native.SessionID" :> "1"),
    Ev("user_session", "login", "K", 3) @@ [login_id |-> "0xa"] @@ ("native.SessionID" :> "2"),
    Ev("user_session", "unlock", "J", 3) @@ [login_id |-> "0xC"] @@ ("native.SessionID" :> "2"),
    Ev("user_session", "logout", "O", 4) @@ [login_id |-> "0xa"],
    Ev("user_session", "disconnect", "D", 4) @@ ("native.SessionID" :> "2"),
    Ev("user_session", "disconnect", "E", 2) @@ ("native.SessionID" :> "1") }

\* A connection uid of two rows.
Connections ==
  { Ev("flow", "start", "u1", 1) @@ [src_ip |-> "ip1"],
    Ev("flow", "start", "", 2) @@ [src_ip |-> "ip2"] @@ ("native.uid" :> "u1"),
    Ev("http", "get", "p1", 3) @@ ("native.uid" :> "u1") }

Capture ==
  { Ev("flow", "start", "u1", 1) @@ [src_ip |-> "ip1", dest_ip |-> "ip2", src_hostname |-> "pc"],
    [Ev("flow", "message", "u1", 2) EXCEPT !["source_artefact"] = "zeek_ssl"]
      @@ [dest_ip |-> "ip2", dest_fqdn |-> "sni", application_protocol |-> "tls"]
      @@ ("native.uid" :> "u1") @@ ("native.cert_chain_fps" :> <<"fp0", "fp1">>),
    [Ev("flow", "message", "d1", 2) EXCEPT !["source_artefact"] = "zeek_dns"]
      @@ [fqdn |-> "named"] @@ ("native.answers" :> <<"ip2">>),
    [Ev("file", "create", "fp1", 3) EXCEPT !["source_artefact"] = "zeek_x509"]
      @@ ("native.certificate.subject" :> "cn"),
    Ev("http", "get", "p1", 3) @@ ("native.uid" :> "u1") @@ ("native.resp_fuids" :> <<"f1", "f2">>),
    Ev("file", "create", "f1", 0) @@ ("native.uid" :> "u1") }

Contents ==
  { Ev("process", "create", "A", 2) @@ [sha256_hash |-> "H1", image_path |-> "c/evil", sid |-> "S-1-5-21-A",
                                        user |-> "me", md5_hash |-> "h2"],
    Ev("process", "create", "B", 3) @@ [sha256_hash |-> "h1", image_path |-> "c/evil"],
    Ev("file", "create", "F", 0) @@ [sha256_hash |-> "h1", file_path |-> "c/evil", uid |-> "S-1-5-21-A"],
    Ev("file", "create", "G", 1) @@ [sha256_hash |-> "h1", file_path |-> "c/copy", md5_hash |-> "h2"],
    Ev("file", "create", "J", 4) @@ [md5_hash |-> "h2", file_path |-> "c/evil"],
    Ev("file", "create", "", 4) @@ [sha256_hash |-> "H1", file_path |-> "c/lost"] }

\* Rows that two sources of a case may share.
Common ==
  { Ev("file", "create", "K", 1) @@ [file_path |-> "c/evil"] @@ ("native.spindle_key" :> "k")
      @@ ("native.spindle_scope" :> "intrinsic"),
    Ev("file", "create", "1", 1) @@ [sha256_hash |-> "H1"] @@ ("native.spindle_key" :> "n")
      @@ ("native.spindle_scope" :> "positional"),
    [Ev("file", "create", "1", 2) EXCEPT !["source_host"] = "h2"] @@ ("native.volumes" :> <<"none", "{vol}">>),
    Ev("process", "create", "A", 1) @@ [image_path |-> "c/evil", sha256_hash |-> "h1", user |-> "localsystem",
                                        parent_guid |-> "Z", link_confidence |-> "definitive"],
    Ev("module", "load", "M", 1) @@ [owning_guid |-> "A", link_confidence |-> "heuristic", volume_guid |-> "vol"] }

\* The objects that the other families have no row of.
Others ==
  { Ev("driver", "load", "Y", 1) @@ [image_path |-> "c/evil", pid |-> "4", owning_guid_native |-> "A"],
    Ev("registry", "create", "R", 1) @@ [key |-> "k", value |-> "v", type |-> "REG_SZ", user |-> "me", pid |-> "4"],
    Ev("registry", "create", "R2", 0) @@ [key |-> "k", type |-> "odd", owning_guid_native |-> "A", image_path |-> "c/copy"],
    Ev("service", "start", "S", 2) @@ [name |-> "svc", image_path |-> "c/evil", pid |-> "odd", uid |-> "S-1-5-18"],
    Ev("socket", "create", "K", 2) @@ [local_address |-> "ip1", remote_address |-> "odd", family |-> "AF_INET", local_port |-> "4"],
    Ev("email", "message", "E", 3) @@ [from |-> "me@x", to |-> <<"me@x", "you@x">>, attachment_name |-> "evil",
                                       attachment_size |-> "8", src_ip |-> "ip2"],
    Ev("email", "message", "", 3) @@ [from |-> "me@x"],
    Ev("process", "create", "A", 1) @@ [pid |-> "4", image_path |-> "c/evil"] }

\* Columns that have a place only beside another, or with some values.
Placed ==
  { Ev("http", "get", "w1", 1)
      @@ [url_scheme |-> "https", url_domain |-> "site", url_full |-> "https://site/x", user_agent_full |-> "ua",
          requester_ip_address |-> "ip1"],
    Ev("http", "get", "w2", 2) @@ [url_scheme |-> "ws", user_agent_full |-> "ua", response_body_bytes |-> "odd"],
    Ev("http", "get", "w3", 3) @@ [url_remainder |-> "/x", url_scheme |-> "http", requester_ip_address |-> "odd",
                                   user_agent_full |-> "ua", response_body_bytes |-> "8"],
    Ev("process", "create", "A", 1) @@ [signer |-> "them", signature_valid |-> "yes", pid |-> "4"],
    Ev("process", "create", "B", 2) @@ [signer |-> "them", signature_valid |-> "no", exe |-> "a"] }

-----------------------------------------------------------------------------
(* The cases *)

Orders(set, n) == UNION {{s \in [1..k -> set] : IsInjective(s)} : k \in 1..n}

Source(list, passthrough) == [passthrough |-> passthrough, rows |-> list]

Alone(set, n) == {<<Source(list, FALSE)>> : list \in Orders(set, n)}

MCCases ==
  Alone(Lineage, 4) \cup Alone(Missing, 3) \cup Alone(Repeated, 3) \cup Alone(Sessions, 3)
  \cup Alone(Twins, 3) \cup Alone(EndedTwice, 4) \cup Alone(Reused, 3) \cup Alone(Connections, 3)
  \cup Alone(Capture, 3) \cup Alone(Contents, 3) \cup Alone(Others, 2) \cup Alone(Placed, 2)
  \cup {<<Source(a, TRUE), Source(b, FALSE)>> : a \in Orders(Common, 1), b \in Orders(Common, 2)}
=============================================================================
