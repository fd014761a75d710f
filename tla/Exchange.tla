------------------------------ MODULE Exchange ------------------------------
(***************************************************************************)
(* The STIX objects of byakugan.exchange (objects.py), the ATT&CK index         *)
(* (attack_index.py), and how bundles are merged and validated (export.py).      *)
(* An object is a record with its type and id.  An id is a tuple that starts       *)
(* with the type and holds what the uuid5 is made of; a bundle is a function         *)
(* from ids to objects.  Times are numbers, 0 for none.                                *)
(***************************************************************************)
EXTENDS Row

CONSTANTS
  Techniques,   \* attack-techniques.json: by technique, [id, revoked, by]
  IsAddress,    \* the values that are an IP address
  IsDomain      \* the values that are a domain name

Case == "case"

Producer == <<"identity", "producer", "byakugan">>

Definition == <<"extension-definition", "dxdfir">>

Sdo(id, created, modified) == [type |-> id[1], id |-> id, created |-> created, modified |-> modified]

\* What every bundle of the exchange carries.
Frame == [id \in {Producer, Definition} |-> Sdo(id, 1, 1)]

\* An id that is there keeps its object.
PutObject(objs, obj) == Over(objs, [id \in {obj.id} |-> obj])

PutObjects(objs, list) == FoldLeft(PutObject, objs, list)

HostIdentity(host) == Sdo(<<"identity", "system", host>>, 1, 1)

IndicatorOf(detection) == <<"indicator", detection>>

Relationship(name, source, target, created, modified, class) ==
  Sdo(<<"relationship", name, source, target>>, created, modified)
  @@ [relationship_type |-> name, source_ref |-> source, target_ref |-> target, class |-> class]

IpAddress(v) == [type |-> "ipv4-addr", id |-> <<"ipv4-addr", v>>, value |-> v]

\* resolves: the address that a flow has resolved the name to.
DomainName(v, resolves) ==
  [type |-> "domain-name", id |-> <<"domain-name", v>>, value |-> v, resolves_to_refs |-> resolves]

Url(v) == [type |-> "url", id |-> <<"url", v>>, value |-> v]

\* The name and the preferred hash, whichever there are.
FileObservable(name, hash) == [type |-> "file", id |-> <<"file", name, hash>>, name |-> name]

NetworkTraffic(src, dst, port, protocols) ==
  [type |-> "network-traffic", id |-> <<"network-traffic", src, dst, port, protocols>>,
   src_ref |-> src, dst_ref |-> dst]

ObservedData(key, kind, refs, when) ==
  Over(Sdo(<<"observed-data", Case, key, kind>>, when, when),
       [first_observed |-> when, last_observed |-> when, object_refs |-> refs])

SightingId(key) == <<"sighting", Case, key>>

SightingObject(key, of, created, modified, first, last, observed, where) ==
  Over(Sdo(SightingId(key), created, modified),
       [sighting_of_ref |-> of, first_seen |-> first, last_seen |-> last, count |-> 1,
        observed_data_refs |-> observed, where_sighted_refs |-> where])

ScoTypes == {"ipv4-addr", "domain-name", "url", "file", "network-traffic"}

-----------------------------------------------------------------------------
(* The ATT&CK index *)

\* A revoked technique is followed to the one it was replaced by, once round at most.
Resolve(tid) ==
  LET Step(t) == IF t \in DOMAIN Techniques /\ Techniques[t].revoked
                    /\ Techniques[t].by \in DOMAIN Techniques THEN Techniques[t].by ELSE t
      end[n \in 0..Cardinality(DOMAIN Techniques)] == IF n = 0 THEN tid ELSE Step(end[n - 1])
  IN  end[Cardinality(DOMAIN Techniques)]

Resolves(tid) == tid \in DOMAIN Techniques

PatternOf(tid) == <<"attack-pattern", Techniques[Resolve(tid)].id>>

-----------------------------------------------------------------------------
(* Bundles *)

Modified(obj) == OrElse(obj, "modified", 0)

\* The objects that are passed through, by their bundle and their place in it.
Incoming(bundles) == UNION {{<<b, k>> : k \in DOMAIN bundles[b]} : b \in DOMAIN bundles}

Passed(bundles, p) == bundles[p[1]][p[2]]

ComesBefore(p, q) == p[1] < q[1] \/ (p[1] = q[1] /\ p[2] < q[2])

\* MUTANT of Supersedes: the object that comes last is taken.
SupersedesEarlier(bundles, p, q) == ComesBefore(q, p)

\* The one that was modified later is taken, of two modified together the first.
Supersedes(bundles, p, q) ==
  LET one == Modified(Passed(bundles, p))  other == Modified(Passed(bundles, q))
  IN  one > other \/ (one = other /\ ComesBefore(p, q))

\* All the bundles into the objects: one that is there stays unless a newer one comes.
Merge(objs, bundles) ==
  LET Versions(id) == {p \in Incoming(bundles) : Passed(bundles, p).id = id}
      Stays(id)    == /\ id \in DOMAIN objs
                      /\ \A p \in Versions(id) : Modified(objs[id]) >= Modified(Passed(bundles, p))
      Newest(id)   == CHOOSE p \in Versions(id) : \A q \in Versions(id) \ {p} : Supersedes(bundles, p, q)
  IN  [id \in DOMAIN objs \cup {Passed(bundles, p).id : p \in Incoming(bundles)} |->
         IF Stays(id) THEN objs[id] ELSE Passed(bundles, Newest(id))]

DatedTypes == {"identity", "extension-definition", "indicator", "relationship", "observed-data", "sighting"}

Required ==
  ("relationship" :> {"relationship_type", "source_ref", "target_ref"})
  @@ ("sighting" :> {"sighting_of_ref"})
  @@ ("observed-data" :> {"first_observed", "last_observed", "object_refs"})

NotEndpoints == {"relationship", "sighting", "extension-definition"}

\* What keeps an object from being valid.
Invalid(obj) ==
  LET Refs(p) == OrElse(obj, p, <<>>)
      undated == obj.type \in DatedTypes /\ 0 \in {OrElse(obj, "created", 0), Modified(obj)}
      lacks   == obj.type \in DOMAIN Required
                 /\ \E k \in Required[obj.type] : k \notin DOMAIN obj \/ (k = "object_refs" /\ obj[k] = <<>>)
      badEdge == obj.type = "relationship" /\ ~lacks
                 /\ (obj.source_ref[1] \in NotEndpoints \/ obj.target_ref[1] \in NotEndpoints)
      badSighting ==
        /\ obj.type = "sighting" /\ ~lacks
        /\ \/ obj.sighting_of_ref[1] \in ScoTypes \cup NotEndpoints
           \/ \E k \in DOMAIN Refs("observed_data_refs") : obj.observed_data_refs[k][1] # "observed-data"
           \/ \E k \in DOMAIN Refs("where_sighted_refs") : obj.where_sighted_refs[k][1] # "identity"
  IN  obj.id[1] # obj.type \/ undated \/ lacks \/ badEdge \/ badSighting

\* The objects that keep a bundle from being written or pushed.
Errors(objs) == {id \in DOMAIN objs : Invalid(objs[id])}

=============================================================================
