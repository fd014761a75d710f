-------------------------------- MODULE Load --------------------------------
(***************************************************************************)
(* `byakugan load` (byakugan/elastic/load.py): a materialised CAR tree is   *)
(* projected into per-stream document lists, pushed to the data streams of  *)
(* an Elasticsearch with chunked _bulk create requests, verified with ids   *)
(* queries, and recorded in bundles and a manifest that lets a later run    *)
(* skip the work.  Several loaders may feed the same Elasticsearch.         *)
(***************************************************************************)
EXTENDS Naturals, Sequences, FiniteSets, Functions

CONSTANTS
  Loader,       \* concurrent `byakugan load` processes
  OutDir,       \* output directories
  OutDirOf,     \* the output directory each loader is given
  Source,       \* source directories of the CAR tree
  Stream,       \* stream families: logs-car.<object>, rel, inferred, content
  Namespace,    \* data-stream namespaces
  Doc,          \* documents, records [id, body]
  Trees,        \* the contents the CAR tree may have: [some sources -> rows]
  Project(_),   \* project_tree: a tree to its documents, [Stream -> Seq(Doc)]
  Options,      \* the [mode, ns, force] a run may be started with
  Size(_),      \* bytes of one _bulk action and document pair
  MaxActions,   \* BULK_MAX_ACTIONS
  MaxBytes,     \* BULK_MAX_BYTES
  BatchSize,    \* VERIFY_BATCH
  MaxFaults,    \* bound: lost answers, rejections, failed queries and crashes
  MaxRebuilds   \* bound: rebuilds of the tree

Index == Namespace \X Stream

NoDocs == [f \in Stream |-> <<>>]

\* A missing, truncated or unparseable file.
Torn == [torn |-> TRUE]

ASSUME OutDirAssumption == OutDirOf \in [Loader -> OutDir]
ASSUME OptionsAssumption ==
  /\ Options \subseteq [mode : {"bundle", "push"}, ns : Namespace, force : BOOLEAN]
  /\ Options # {}
ASSUME ProjectAssumption ==
  \A t \in Trees : \A s \in SUBSET DOMAIN t :
    Project(Restrict(t, s)) \in [Stream -> Seq(Doc)]
ASSUME BoundsAssumption ==
  /\ MaxActions \in Nat \ {0} /\ MaxBytes \in Nat /\ BatchSize \in Nat \ {0}
  /\ MaxFaults \in Nat /\ MaxRebuilds \in Nat
ASSUME TreesAssumption ==
  \A t \in Trees : DOMAIN t \subseteq Source /\ t = [s \in DOMAIN t |-> t[s]]

VARIABLES
  tree,       \* the materialised CAR tree on disk
  rebuilds,   \* how often the tree was rebuilt (bounded)
  faults,     \* how many faults happened (bounded)
  store,      \* Elasticsearch: the documents of each data stream
  hidden,     \* ids stored but not searchable before the next refresh
  pending,    \* documents of unanswered bulk requests that may still land
  bundle,     \* <out>/elastic/<stream>.ndjson of each output directory
  manifest,   \* <out>/elastic/manifest.json of each output directory
  pc,         \* where each loader is
  opt,        \* its options
  sources,    \* the sources it discovered
  docs,       \* its projected documents
  todo,       \* streams it still has to push, or to bundle
  next,       \* next position of the stream in hand
  total,      \* verify_stream's running total
  tally,      \* push_stream's counters, per stream
  verified,   \* result["verified"], per stream
  outcome     \* the status of the run it has just finished

diskVars == <<bundle, manifest>>
esVars == <<store, hidden, pending>>
runVars == <<opt, sources, docs>>
envVars == <<tree, rebuilds>>
vars == <<tree, rebuilds, faults, store, hidden, pending, bundle, manifest, pc,
          opt, sources, docs, todo, next, total, tally, verified, outcome>>

-----------------------------------------------------------------------------
(***************************************************************************)
(* Helpers                                                                 *)
(***************************************************************************)
Ids(ds) == {d.id : d \in ds}

Populated(ds) == {f \in Stream : ds[f] # <<>>}

\* sorted(streams): one fixed order, whatever it is.
First(fs) == CHOOSE f \in fs : TRUE

Key(l) == <<opt[l].ns, First(todo[l])>>

List(l) == docs[l][First(todo[l])]

NoTally == [created |-> 0, already |-> 0, failed |-> 0]

\* The bytes of a chunk made of positions i..j of list d.
Bytes(d, i, j) == SumFunction([x \in i..j |-> Size(d[x])])

\* A mutant: a document too big for a request is not sent alone.
IsChunkStrict(d, i, j) ==
  /\ j - i < MaxActions
  /\ Bytes(d, i, j) <= MaxBytes
  /\ j < Len(d) => (j - i + 1 = MaxActions \/ Bytes(d, i, j + 1) > MaxBytes)

\* _chunk_docs: from position i the chunk takes every following pair until it
\* holds MaxActions or the next pair would exceed MaxBytes; a first pair that
\* is too big by itself still goes, alone.
IsChunk(d, i, j) ==
  /\ j - i < MaxActions
  /\ j = i \/ Bytes(d, i, j) <= MaxBytes
  /\ j < Len(d) => (j - i + 1 = MaxActions \/ Bytes(d, i, j + 1) > MaxBytes)

\* A mutant: the request uses `index`, which replaces what is stored.
FreshByIndex(d, accepted, stored) ==
  {i \in accepted : \A j \in accepted : j < i => d[j].id # d[i].id}

\* The positions of a bulk request that Elasticsearch creates: accepted, not
\* stored yet, and the first of their id in the request.
Fresh(d, accepted, stored) ==
  {i \in accepted : /\ d[i].id \notin Ids(stored)
                    /\ \A j \in accepted : j < i => d[j].id # d[i].id}

\* A mutant: without refresh=wait_for new documents are not searchable yet.
AfterBulkNoWait(h, created) == h \cup created

\* The ids hidden from searches after a bulk request was answered: with
\* refresh=wait_for the answer comes when what it created is searchable.
AfterBulk(h, created) == h

\* Mutants: a rejected document is taken for a duplicate; a duplicate for a
\* failure.
AnsweredLax(t, created, already, failed) ==
  [created |-> t.created + created, already |-> t.already + already + failed,
   failed |-> t.failed]
AnsweredStrict(t, created, already, failed) ==
  [created |-> t.created + created, already |-> t.already,
   failed |-> t.failed + already + failed]

\* The counters after an answer: 2xx, 409, anything else.
Answered(t, created, already, failed) ==
  [created |-> t.created + created, already |-> t.already + already,
   failed |-> t.failed + failed]

\* A mutant: one failure is booked for the whole chunk.
UnansweredOnce(t, n) == [t EXCEPT !.failed = @ + 1]

\* The counters after a chunk of n documents without a usable answer.
Unanswered(t, n) == [t EXCEPT !.failed = @ + n]

\* A mutant: any push counts, successful or not.
ReusableIfPushed(m, found, mode) ==
  /\ m # Torn
  /\ m.sources = found
  /\ mode = "bundle" \/ m.mode = "push"

\* _manifest_is_reusable: readable, covering exactly today's sources, and in
\* push mode left by a run whose own push succeeded.
Reusable(m, found, mode) ==
  /\ m # Torn
  /\ m.sources = found
  /\ mode = "bundle" \/ (m.mode = "push" /\ m.pushOk)

\* A mutant: the batch is counted as present without looking.
FoundUnseen(d, i, j, k) == {d[x].id : x \in i..j}

\* The ids of positions i..j that one ids query of verify_stream counts.
Found(d, i, j, k) == {d[x].id : x \in i..j} \cap (Ids(store[k]) \ hidden[k])

\* The counters after a verification that counted fewer documents than sent.
Short(t, size, count) ==
  [t EXCEPT !.failed = @ + (IF count < size THEN size - count ELSE 0)]

\* A mutant: any instead of all.
PushOkAny(l) ==
  \E f \in Populated(docs[l]) : tally[l][f].failed = 0 /\ verified[l][f]

\* push_ok: every stream without a failure and verified.
PushOk(l) ==
  \A f \in Populated(docs[l]) : tally[l][f].failed = 0 /\ verified[l][f]

Records(l) == SumFunction([f \in Stream |-> Len(docs[l][f])])

FailedDocs(l) == SumFunction([f \in Stream |-> tally[l][f].failed])

\* failed == 0: the counters are naturals, so the sum is 0 when each of them is.
NoneFailed(l) == \A f \in Stream : tally[l][f].failed = 0

\* The status of a run that was not skipped, from document counts.
Status(l) ==
  IF opt[l].mode = "bundle" \/ NoneFailed(l) THEN "ok"
  ELSE IF FailedDocs(l) >= Records(l) THEN "failed" ELSE "partial"

NoOutcome == [status |-> "none", skipped |-> FALSE]

AnyOption == CHOOSE o \in Options : TRUE

\* The state of a loader between runs.
Forget(l) ==
  /\ opt' = [opt EXCEPT ![l] = AnyOption]
  /\ docs' = [docs EXCEPT ![l] = NoDocs]
  /\ sources' = [sources EXCEPT ![l] = {}]
  /\ todo' = [todo EXCEPT ![l] = {}]
  /\ next' = [next EXCEPT ![l] = 1]
  /\ total' = [total EXCEPT ![l] = 0]
  /\ tally' = [tally EXCEPT ![l] = [f \in Stream |-> NoTally]]
  /\ verified' = [verified EXCEPT ![l] = [f \in Stream |-> FALSE]]
  /\ outcome' = [outcome EXCEPT ![l] = NoOutcome]

-----------------------------------------------------------------------------
(***************************************************************************)
(* One run of the loader                                                   *)
(***************************************************************************)
\* run: find_sources; an empty tree raises SystemExit before anything else.
Start(l) ==
  /\ pc[l] = "idle"
  /\ DOMAIN tree # {}
  /\ \E o \in Options : opt' = [opt EXCEPT ![l] = o]
  /\ sources' = [sources EXCEPT ![l] = DOMAIN tree]
  /\ pc' = [pc EXCEPT ![l] = "check"]
  /\ UNCHANGED <<envVars, faults, esVars, diskVars, docs, todo, next, total,
                 tally, verified, outcome>>

\* The skip-shortcut: a reusable manifest ends the run, status ok.
Skip(l) ==
  /\ pc[l] = "check"
  /\ ~opt[l].force
  /\ Reusable(manifest[OutDirOf[l]], sources[l], opt[l].mode)
  /\ outcome' = [outcome EXCEPT ![l] = [status |-> "ok", skipped |-> TRUE]]
  /\ pc' = [pc EXCEPT ![l] = "done"]
  /\ UNCHANGED <<envVars, faults, esVars, diskVars, runVars, todo, next, total,
                 tally, verified>>

\* project_tree over the discovered sources, as they are now.
Render(l) ==
  /\ pc[l] = "check"
  /\ opt[l].force \/ ~Reusable(manifest[OutDirOf[l]], sources[l], opt[l].mode)
  /\ LET projected == Project(Restrict(tree, sources[l] \cap DOMAIN tree))
     IN  /\ docs' = [docs EXCEPT ![l] = projected]
         /\ todo' = [todo EXCEPT ![l] = Populated(projected)]
         /\ pc' = [pc EXCEPT ![l] =
              IF opt[l].mode = "push" /\ Populated(projected) # {}
              THEN "push" ELSE "bundle"]
  /\ UNCHANGED <<envVars, faults, esVars, diskVars, opt, sources, next, total,
                 tally, verified, outcome>>

\* After the last chunk of a stream its verification starts.
AfterChunk(l, j) ==
  IF j = Len(List(l))
  THEN pc' = [pc EXCEPT ![l] = "verify"] /\ next' = [next EXCEPT ![l] = 1]
  ELSE pc' = pc /\ next' = [next EXCEPT ![l] = j + 1]

\* push_stream, a chunk whose answer has one item per document: 2xx created,
\* 409 already present, any other status failed.
PushAnswered(l) ==
  /\ pc[l] = "push"
  /\ \E j \in next[l]..Len(List(l)) :
       /\ IsChunk(List(l), next[l], j)
       /\ \E rejected \in SUBSET (next[l]..j) :
            LET accepted == (next[l]..j) \ rejected
                fresh == Fresh(List(l), accepted, store[Key(l)])
            IN  /\ rejected # {} => faults < MaxFaults
                /\ faults' = IF rejected = {} THEN faults ELSE faults + 1
                /\ store' = [store EXCEPT ![Key(l)] =
                               @ \cup {List(l)[i] : i \in fresh}]
                /\ hidden' = [hidden EXCEPT ![Key(l)] =
                                AfterBulk(@, {List(l)[i].id : i \in fresh})]
                /\ tally' = [tally EXCEPT ![l][First(todo[l])] =
                     Answered(@, Cardinality(fresh),
                              Cardinality(accepted \ fresh), Cardinality(rejected))]
       /\ AfterChunk(l, j)
  /\ UNCHANGED <<envVars, pending, diskVars, runVars, todo, total,
                 verified, outcome>>

\* push_stream, a chunk without a usable answer (OSError, or not one item per
\* document): all of it is failed, though some of it may land yet.
PushUnanswered(l) ==
  /\ pc[l] = "push"
  /\ faults < MaxFaults
  /\ faults' = faults + 1
  /\ \E j \in next[l]..Len(List(l)) :
       /\ IsChunk(List(l), next[l], j)
       /\ \E sent \in SUBSET (next[l]..j) :
            pending' = [pending EXCEPT ![Key(l)] =
                          @ \cup {List(l)[i] : i \in sent}]
       /\ tally' = [tally EXCEPT ![l][First(todo[l])] = Unanswered(@, j - next[l] + 1)]
       /\ AfterChunk(l, j)
  /\ UNCHANGED <<envVars, store, hidden, diskVars, runVars, todo, total,
                 verified, outcome>>

\* A mutant: positions restart at 0.
NextStreamAtZero(l) ==
  LET rest == todo[l] \ {First(todo[l])}
  IN  /\ todo' = [todo EXCEPT ![l] = IF rest = {} THEN Populated(docs[l]) ELSE rest]
      /\ pc' = [pc EXCEPT ![l] = IF rest = {} THEN "bundle" ELSE "push"]
      /\ next' = [next EXCEPT ![l] = 0]
      /\ total' = [total EXCEPT ![l] = 0]

\* push_all goes on with the next stream, or the run with its bundles.
NextStream(l) ==
  LET rest == todo[l] \ {First(todo[l])}
  IN  /\ todo' = [todo EXCEPT ![l] = IF rest = {} THEN Populated(docs[l]) ELSE rest]
      /\ pc' = [pc EXCEPT ![l] = IF rest = {} THEN "bundle" ELSE "push"]
      /\ next' = [next EXCEPT ![l] = 1]
      /\ total' = [total EXCEPT ![l] = 0]

\* verify_stream, one ids query; after the last one push_all compares the
\* count with the documents of the stream and books a shortfall as failed.
VerifyBatch(l) ==
  /\ pc[l] = "verify"
  /\ LET f == First(todo[l])
         size == Len(List(l))
         j == IF next[l] + BatchSize - 1 < size THEN next[l] + BatchSize - 1 ELSE size
         count == total[l] + Cardinality(Found(List(l), next[l], j, Key(l)))
     IN  IF j < size
         THEN /\ total' = [total EXCEPT ![l] = count]
              /\ next' = [next EXCEPT ![l] = j + 1]
              /\ UNCHANGED <<pc, todo, tally, verified>>
         ELSE /\ verified' = [verified EXCEPT ![l][f] = (count = size)]
              /\ tally' = [tally EXCEPT ![l][f] = Short(@, size, count)]
              /\ NextStream(l)
  /\ UNCHANGED <<envVars, faults, esVars, diskVars, runVars, outcome>>

\* verify_stream raises (an HTTP error or OSError): not verified, and nothing
\* is added to failed.
VerifyError(l) ==
  /\ pc[l] = "verify"
  /\ faults < MaxFaults
  /\ faults' = faults + 1
  /\ NextStream(l)
  /\ UNCHANGED <<envVars, esVars, diskVars, runVars, tally, verified, outcome>>

\* open(..., "w") leaves an empty file until it is written and closed.
OpenBundle(l) ==
  /\ pc[l] = "bundle"
  /\ todo[l] # {}
  /\ bundle' = [bundle EXCEPT ![OutDirOf[l]][Key(l)] = Torn]
  /\ pc' = [pc EXCEPT ![l] = "fill"]
  /\ UNCHANGED <<envVars, faults, esVars, manifest, runVars, todo, next, total,
                 tally, verified, outcome>>

\* What is left by a write over a file another process wrote since this one
\* opened it: this content, or a mixture nobody can parse.
Written(content, there) ==
  IF there \in {Torn, content} THEN {content} ELSE {content, Torn}

FillBundle(l) ==
  /\ pc[l] = "fill"
  /\ \E b \in Written([docs |-> List(l)], bundle[OutDirOf[l]][Key(l)]) :
       bundle' = [bundle EXCEPT ![OutDirOf[l]][Key(l)] = b]
  /\ todo' = [todo EXCEPT ![l] = @ \ {First(@)}]
  /\ pc' = [pc EXCEPT ![l] = "bundle"]
  /\ UNCHANGED <<envVars, faults, esVars, manifest, runVars, next, total,
                 tally, verified, outcome>>

\* A mutant: the manifest is written although a bundle is still missing.
OpenManifestEarly(l) ==
  /\ pc[l] = "bundle"
  /\ manifest' = [manifest EXCEPT ![OutDirOf[l]] = Torn]
  /\ pc' = [pc EXCEPT ![l] = "manifest"]
  /\ UNCHANGED <<envVars, faults, esVars, bundle, runVars, todo, next, total,
                 tally, verified, outcome>>

\* write_bundles: manifest.json comes after every bundle.
OpenManifest(l) ==
  /\ pc[l] = "bundle"
  /\ todo[l] = {}
  /\ manifest' = [manifest EXCEPT ![OutDirOf[l]] = Torn]
  /\ pc' = [pc EXCEPT ![l] = "manifest"]
  /\ UNCHANGED <<envVars, faults, esVars, bundle, runVars, todo, next, total,
                 tally, verified, outcome>>

ManifestOf(l) ==
  [mode |-> opt[l].mode, ns |-> opt[l].ns, sources |-> sources[l],
   docs |-> docs[l], pushOk |-> opt[l].mode = "push" /\ PushOk(l)]

\* The manifest is on disk; run returns its summary.
FillManifest(l) ==
  /\ pc[l] = "manifest"
  /\ \E m \in Written(ManifestOf(l), manifest[OutDirOf[l]]) :
       manifest' = [manifest EXCEPT ![OutDirOf[l]] = m]
  /\ outcome' = [outcome EXCEPT ![l] = [status |-> Status(l), skipped |-> FALSE]]
  /\ pc' = [pc EXCEPT ![l] = "done"]
  /\ UNCHANGED <<envVars, faults, esVars, bundle, runVars, todo, next, total,
                 tally, verified>>

\* The process has printed its summary and exits.
Return(l) ==
  /\ pc[l] = "done"
  /\ pc' = [pc EXCEPT ![l] = "idle"]
  /\ Forget(l)
  /\ UNCHANGED <<envVars, faults, esVars, diskVars>>

\* The process is killed, wherever it is; what it did stays.
Crash(l) ==
  /\ pc[l] \notin {"idle", "done"}
  /\ faults < MaxFaults
  /\ faults' = faults + 1
  /\ pc' = [pc EXCEPT ![l] = "idle"]
  /\ Forget(l)
  /\ UNCHANGED <<envVars, esVars, diskVars>>

-----------------------------------------------------------------------------
(***************************************************************************)
(* The environment                                                         *)
(***************************************************************************)
\* A document of an unanswered request is applied after all, as a create; it
\* is not searchable before the next refresh.
Land(k) ==
  \E d \in pending[k] :
    /\ pending' = [pending EXCEPT ![k] = @ \ {d}]
    /\ IF d.id \in Ids(store[k])
       THEN UNCHANGED <<store, hidden>>
       ELSE /\ store' = [store EXCEPT ![k] = @ \cup {d}]
            /\ hidden' = [hidden EXCEPT ![k] = @ \cup {d.id}]
    /\ UNCHANGED <<envVars, faults, diskVars, pc, runVars, todo, next, total,
                   tally, verified, outcome>>

Refresh(k) ==
  /\ hidden[k] # {}
  /\ hidden' = [hidden EXCEPT ![k] = {}]
  /\ UNCHANGED <<envVars, faults, store, pending, diskVars, pc, runVars, todo,
                 next, total, tally, verified, outcome>>

\* `byakugan build` rewrites the tree, or adds a source to it.
Rebuild ==
  /\ rebuilds < MaxRebuilds
  /\ rebuilds' = rebuilds + 1
  /\ tree' \in Trees \ {tree}
  /\ UNCHANGED <<faults, esVars, diskVars, pc, runVars, todo, next, total,
                 tally, verified, outcome>>

Init ==
  /\ tree \in Trees
  /\ rebuilds = 0
  /\ faults = 0
  /\ store = [k \in Index |-> {}]
  /\ hidden = [k \in Index |-> {}]
  /\ pending = [k \in Index |-> {}]
  /\ bundle = [o \in OutDir |-> [k \in Index |-> Torn]]
  /\ manifest = [o \in OutDir |-> Torn]
  /\ pc = [l \in Loader |-> "idle"]
  /\ opt = [l \in Loader |-> AnyOption]
  /\ sources = [l \in Loader |-> {}]
  /\ docs = [l \in Loader |-> NoDocs]
  /\ todo = [l \in Loader |-> {}]
  /\ next = [l \in Loader |-> 1]
  /\ total = [l \in Loader |-> 0]
  /\ tally = [l \in Loader |-> [f \in Stream |-> NoTally]]
  /\ verified = [l \in Loader |-> [f \in Stream |-> FALSE]]
  /\ outcome = [l \in Loader |-> NoOutcome]

\* What the loader does by itself, given an Elasticsearch that answers.
Run(l) ==
  \/ Skip(l) \/ Render(l)
  \/ PushAnswered(l) \/ PushUnanswered(l)
  \/ VerifyBatch(l) \/ VerifyError(l)
  \/ OpenBundle(l) \/ FillBundle(l)
  \/ OpenManifest(l) \/ FillManifest(l)
  \/ Return(l)

Next ==
  \/ \E l \in Loader : Start(l) \/ Run(l) \/ Crash(l)
  \/ \E k \in Index : Land(k) \/ Refresh(k)
  \/ Rebuild

Spec == Init /\ [][Next]_vars

\* The loader's own steps are never abandoned; a request ends, answered or
\* not, because http_json has a timeout.
FairSpec == Spec /\ \A l \in Loader : WF_vars(Run(l))

-----------------------------------------------------------------------------
(***************************************************************************)
(* Properties                                                              *)
(***************************************************************************)
Manifests ==
  [mode : {"bundle", "push"}, ns : Namespace, sources : SUBSET Source,
   docs : [Stream -> Seq(Doc)], pushOk : BOOLEAN]

Locations == {"idle", "check", "push", "verify", "bundle", "fill", "manifest", "done"}

Tallies == [created : Nat, already : Nat, failed : Nat]

\* Every variable has its type, and the positions a loader works at lie in the
\* list it works on.
TypeOK ==
  /\ tree \in Trees /\ rebuilds \in 0..MaxRebuilds /\ faults \in 0..MaxFaults
  /\ store \in [Index -> SUBSET Doc]
  /\ hidden \in [Index -> SUBSET Ids(Doc)]
  /\ pending \in [Index -> SUBSET Doc]
  /\ bundle \in [OutDir -> [Index -> {Torn} \cup [docs : Seq(Doc)]]]
  /\ manifest \in [OutDir -> {Torn} \cup Manifests]
  /\ pc \in [Loader -> Locations]
  /\ opt \in [Loader -> Options]
  /\ sources \in [Loader -> SUBSET Source]
  /\ docs \in [Loader -> [Stream -> Seq(Doc)]]
  /\ todo \in [Loader -> SUBSET Stream]
  /\ next \in [Loader -> Nat \ {0}]
  /\ total \in [Loader -> Nat]
  /\ tally \in [Loader -> [Stream -> Tallies]]
  /\ verified \in [Loader -> [Stream -> BOOLEAN]]
  /\ outcome \in [Loader -> [status : {"none", "ok", "partial", "failed"},
                             skipped : BOOLEAN]]

Present(k, d) == \A i \in DOMAIN d : d[i].id \in Ids(store[k])

\* A stream push_all reports as verified has every one of its documents in
\* Elasticsearch, whatever the answers to its bulk requests said, and keeps
\* them while the run goes on (load.py push_all, verify_stream).
VerifiedMeansPresent ==
  \A l \in Loader, f \in Stream :
    verified[l][f] => Present(<<opt[l].ns, f>>, docs[l][f])

\* A manifest with push_ok stands for documents that are all in
\* Elasticsearch, across crashes, late answers and other loaders: the skip it
\* licenses loses nothing (load.py _manifest_is_reusable).
PushOkMeansPresent ==
  \A o \in OutDir :
    manifest[o] # Torn =>
      (manifest[o].pushOk =>
         \A f \in Stream : Present(<<manifest[o].ns, f>>, manifest[o].docs[f]))

\* The documents of a stream no bulk request of this run has gone past yet.
Unsent(l, f) ==
  {i \in DOMAIN docs[l][f] :
     /\ pc[l] \in {"push", "verify"}
     /\ f \in todo[l]
     /\ f = First(todo[l]) => (pc[l] = "push" /\ i >= next[l])}

Missing(l, f) == {i \in DOMAIN docs[l][f] : docs[l][f][i].id \notin Ids(store[<<opt[l].ns, f>>])}

\* A document that is not in Elasticsearch after its bulk request is counted
\* as failed: none is lost without a trace, however the request went
\* (load.py push_stream).
MissingIsCounted ==
  \A l \in Loader, f \in Stream :
    opt[l].mode = "push" =>
      Cardinality(Missing(l, f) \ Unsent(l, f)) <= tally[l][f].failed

\* push_stream counts each document of a sent chunk exactly once, in one of
\* created, already_present and failed (load.py push_stream).
EachDocumentTalliedOnce ==
  \A l \in Loader, f \in Stream :
    pc[l] \in {"push", "verify"} /\ f \in todo[l] =>
      LET t == tally[l][f]
      IN  t.created + t.already + t.failed =
            Cardinality(DOMAIN docs[l][f] \ Unsent(l, f))

\* A stream whose documents this run all created is counted in full by the
\* verification that follows: refresh=wait_for makes them searchable before
\* the ids query runs (load.py push_stream, the comment on refresh).
CreatedIsVerified ==
  \A l \in Loader :
    pc[l] = "verify" =>
      (tally[l][First(todo[l])].created = Len(List(l)) => total[l] = next[l] - 1)

\* A push run that ends with status ok, by pushing or by skipping, has every
\* document of the tree in Elasticsearch, as long as nobody has rebuilt the
\* tree (cli.py exit code 0).  It needs one namespace: see MCLoad_namespaces.
OkMeansPresent ==
  \A l \in Loader :
    (/\ rebuilds = 0 /\ pc[l] = "done"
     /\ opt[l].mode = "push" /\ outcome[l].status = "ok")
    => \A f \in Stream : Present(<<opt[l].ns, f>>, Project(tree)[f])

\* A run that was not skipped leaves a bundle with the very documents of each
\* populated stream, and a manifest that describes them, when nobody else
\* writes to its output directory (load.py write_bundles).
RunLeavesItsBundles ==
  \A l \in Loader :
    (/\ pc[l] = "done" /\ ~outcome[l].skipped
     /\ \A other \in Loader \ {l} : OutDirOf[other] # OutDirOf[l])
    => /\ manifest[OutDirOf[l]] = ManifestOf(l)
       /\ \A f \in Populated(docs[l]) :
            bundle[OutDirOf[l]][<<opt[l].ns, f>>] = [docs |-> docs[l][f]]

\* What the manifests vouch for.
Vouched ==
  UNION {IF manifest[o] # Torn
         THEN IF manifest[o].pushOk
              THEN UNION {{<<<<manifest[o].ns, f>>, manifest[o].docs[f][i].id>> :
                             i \in DOMAIN manifest[o].docs[f]} : f \in Stream}
              ELSE {}
         ELSE {} : o \in OutDir}

Sink == INSTANCE EvidenceStore WITH
  claims <- Vouched, Claimed <- Index \X Ids(Doc)

\* Loading implements the evidence store: documents are only added, an id
\* keeps its first body, manifests vouch for what is there.
ImplementsEvidenceStore == Sink!Spec

\* Every run that starts ends, whatever Elasticsearch answers (load.py run).
RunEnds == \A l \in Loader : pc[l] # "idle" ~> pc[l] = "idle"

\* The operator runs the loader again and again, and Elasticsearch refreshes.
RetrySpec ==
  /\ FairSpec
  /\ \A l \in Loader : WF_vars(Start(l))
  /\ \A k \in Index : WF_vars(Refresh(k))

\* Once faults have stopped, reloading converges: from some point on a
\* manifest vouches for every document of the tree, so that later runs have
\* nothing to do (Elastic-Store-Plan.md, idempotency and write discipline).
ReloadConverges ==
  <>[](\A l \in Loader : LET m == manifest[OutDirOf[l]]
                         IN  m # Torn /\ m.pushOk /\ m.docs = Project(tree))

-----------------------------------------------------------------------------
(***************************************************************************)
(* What the documentation says and the code does not do                    *)
(***************************************************************************)
\* Exit code 0 of a push: "pushed+verified" (cli.py:84).
OkMeansVerified ==
  \A l \in Loader :
    (/\ pc[l] = "done" /\ ~outcome[l].skipped
     /\ opt[l].mode = "push" /\ outcome[l].status = "ok")
    => \A f \in Populated(docs[l]) : verified[l][f]
=============================================================================
