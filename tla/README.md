# Byakugan, modelled and proved

Byakugan turns processed forensic evidence into a materialised CAR tree (one
directory of JSONL files per source), enriches and relates its events, and
loads the tree into Elasticsearch.  This directory holds TLA+ modules of the
parts of it where order, failure and repetition matter, TLC configurations
that check them on small instances, and TLAPS proofs of what holds for every
instance.

    tlc -workers 2 -config MCLoad_safety.cfg MCLoad
    tlapm LoadProof.tla      # also LoadCountsProof, BuildProof, FoldProof,
                             # ClientsProof, PositionsProof, EnrichProof, CascadeProof

## The system

Byakugan is a set of run-once batch programs that meet in files and in one
Elasticsearch.  Nothing inside a process runs concurrently: the hard
behaviours come from what happens *between* processes (kills, lost answers,
repeated and parallel runs, trees rebuilt under a loader) and from steps of one
run that fail while others have already left their files.

| component | state it keeps | operations | what makes it correct |
|---|---|---|---|
| batch build (`pipeline.py`, `cli._build`) | the output tree of each source, the done-marker `car_relationships.jsonl`, temporary split directories | discover, skip, parse, split, enrich, export, derive, STIX, next source | a marked source has complete objects; one failing source stops no other; the batches make progress; nothing temporary stays |
| store and superset (`store.py`, `superset.py`) | events, edges, inferred and content nodes in memory | insert, count, export, read back | every insertion is exported once; readers see what was exported |
| enrichment (`enrich.py`) | the events of one source | fold, resolve owners, inherit, pair sessions and logins | an owner existed before its spoke; a native value is never overwritten; a fold loses no value |
| derived pass (`derive.py`) | derived edges, inferred nodes, content nodes | link, act, reconstruct, collect contents | an inferred end is never an observed one; ends exist |
| Elastic loader (`elastic/load.py`, `_http.py`) | bundles, the manifest, the data streams | discover, skip, project, push in chunks, verify, write bundles, write manifest | what it reports and remembers is true of Elasticsearch; evidence is only added; reloads converge |
| setup (`load.run_setup`) | templates, Kibana spaces | GET, compare, PUT, import | re-setup is a no-op; indices never precede their templates |
| projection and inverse (`elastic/*projection.py`) | none | row to document and back | documents keep the row; ids are deterministic |
| timeline (`timeline.py`) | a point in time of Elasticsearch | open, page, close; filter and sort | every row once; local and Elastic source agree |
| analytics and Sigma rules (`analytics.py`, `sigma.py`) | none | match a parsed rule against stored rows | a rule that flags the evidence flags the tree |
| cross-source convergence (`crosssource.py`) | none | union rows by shared identity | an equivalence; nothing merged across hosts without an identity |
| verify gate (`verify.py`) | none | read a tree, count violations | fails on every violation |
| STIX projection (`stix.py`) | the objects of a bundle | rows, nodes, relationships and hits to objects | references are closed, no column is dropped, ids deterministic |
| CTI pull (`exchange/cti/indicators.py`, `opencti.py`) | the `cti-*` copy, the watermark | pull by cursor, turn into documents, copy | a pull misses nothing |
| exchange verbs (`exchange/export.py`, `cti/sightings.py`, `behaviour.py`) | an output file, the OpenCTI platform | read, assemble, merge, validate, write, push | nothing invalid is written or pushed; ok means sent; the newest version of an object wins |
| parse engine (`go/`) | none | parse a file by maps, split a log2timeline container | one event list per file, in record order; or a non-zero exit |
| identity (`spindle.py`, `ids.py`, Go twins) | a static registry | mint ids | same key, same id, in both languages |
| command line (`cli.py`) | one summary line | run an engine, map its result to a status | exit code tells what happened |

Interactions: `build` writes trees that `load`, `timeline`, `verify`, `stix` and
the exchange read, by globbing `car_*.jsonl`; several loaders may feed one
Elasticsearch; `timeline` reads it back; the exchange talks to OpenCTI.  The
hazards of each are listed in `PROJECT.json`, at the line where they bite.

## The modules

| module | models | state and actions |
|---|---|---|
| `EvidenceStore` | what loading promises, abstractly | `store` (documents of each data stream) and `claims` (what is vouched for); `Create` adds documents with new ids to one stream, `Vouch` changes what is vouched for to something present |
| `ProjectTree` | `project_tree` | pure: the rows of a tree to the documents of each stream, with rows that raise, rows without a timestamp and the second (lookup) pass over the relationships |
| `Load` | `byakugan load`, with Elasticsearch, its clients' faults and the output directories | see below |
| `LoadProof` | theorems about `Load`: types, what is verified, the refinement | |
| `LoadCountsProof` | its counters; what a finished run leaves and what its status is worth | |
| `MCLoad` | small instances of `Load`, with the projection of `ProjectTree` | |
| `Build` | `byakugan build` in batch mode | see below |
| `BuildProof` | theorems about `Build` | |
| `MCBuild` | small instances of `Build` | |
| `FoldProof` | induction over a list: what a fold keeps, and what a flattened list of lists is made of | instantiated with the step and the invariant |
| `Positions`, `PositionsProof` | numbering: the n-th of a set of positions, what is picked at them; lemmas about it | |
| `Row`, `NativeIds` | a CAR row as a function from the columns it has to values; the identifiers mined from native fields | pure |
| `Enrich` | `enrich.py`: fold, owners, parents, targets, sessions, flows, names, executions, accounts | pure: `FoldEvents`, and `EnrichRow` for one turn of the loop |
| `EnrichProof` | lemmas about the fold and about one turn of the cascade | |
| `Derive` | `derive.py`, and the store of `superset.py` | pure: the declared edges, the three derived passes, the store keyed by edge and by node id |
| `Behaviour` | `analytics.py`, `sigma.py`: a parsed rule against a row | pure |
| `Stix` | `stix.py` | pure: `Bundle` of rows, edges, nodes |
| `Converge`, `Gate` | `crosssource.py`, `verify.py` | pure: the groups of a case; the tallies that fail |
| `Cascade`, `MCCascade` | a case, source by source, through all of these | see below |
| `CascadeProof` | theorems about `Cascade` | |
| `Projection`, `Inverse` | `elastic/projection.py`, `elastic/inverse_projection.py` | pure: a row to a document and back |
| `Timeline` | `timeline.py` against an Elasticsearch that is written to | the `documents` of the store, a loader that pushes, the point in time (`snapshot`) and the cursor over it |
| `Setup` | `run_setup`, `run_kibana_setup` of several loaders | what is `stored` of each template, space and saved object; one request per action; an operator who edits or removes |
| `Cti` | `exchange/cti/indicators.py`, `opencti.pull_indicators` | the `platform`, the cursor, the `copy`, the watermark `since`; `overtaken`, a history variable |
| `Exchange`, `Hits`, `Alerts`, `Lanes`, `Joins` | the objects of the exchange: ids, merge, validation, hits to sightings, alerts to sightings, lane files to firings, firings to rows | pure |
| `Verbs` | `stix-export`, `cti-sightings`, `stix-behaviour` | assemble, validate, write, push, run again |
| `Clients`, `MCClients` | the four clients side by side | see below |
| `ClientsProof` | theorems about the setup, the pull and the verbs | |

### Load

Each loader goes through `pc`: `idle` (no process), `check` (sources found, the
manifest still to be looked at), `push` and `verify` (for the first stream of
`todo`), `bundle` and `fill` (for a bundle file opened, then written),
`manifest`, `done`.

| action | code |
|---|---|
| `Start` | `find_sources`; an empty tree ends before anything (guard) |
| `Skip`, `Render` | `read_manifest`, `_manifest_is_reusable`; else `project_tree` |
| `PushAnswered` | one chunk of `_chunk_docs` and an answer with an item per document: 2xx, 409, anything else |
| `PushUnanswered` | an `OSError` or an answer of another length: all is failed, any part of the request may still be applied |
| `VerifyBatch`, `VerifyError` | one ids query of `verify_stream`; it raises.  After the last batch `push_all` compares and goes on |
| `OpenBundle`, `FillBundle`, `OpenManifest`, `FillManifest` | `write_bundles`; `open(.., "w")` and the write are two steps |
| `Return`, `Crash` | the process prints its summary and ends; is killed |
| `Land`, `Refresh` | Elasticsearch: a request without an answer is applied; a refresh |
| `Rebuild` | `byakugan build` changes the tree, as one step |

Abstractions: a document is an id and a body; a manifest holds the documents
themselves where the file holds their number and digest; the configuration of
TLS and authentication, the report and the engine's JSON line are left out.
`_id`s are unique in a data stream: the loader's plan forbids rollover, on
which that depends (docs/Elastic-Store-Plan.md, "write discipline").
`project_tree` reads the tree in one step; a tree half-written while it is read
is left to the module `TreeLoad` of the plan below.  `BULK_MAX_ACTIONS`,
`BULK_MAX_BYTES` and `VERIFY_BATCH` are constants.

### Build

One process at a time: `next` (the loop of `run_batch`), `parse`, `tables` (a raw
container is split), `open` and `fill` (the next file of `plan`), `done`.  `disk`
says of every file of a tree that it is absent, torn, or holds what came `from`
some evidence, with or without the derived class.  `ParseFile` covers a mapped
file, one nobody routes, and a finished `car.db`; `SplitFile` and `ParseTables` a
raw log2timeline container.  `Raise` is any exception, at any step;
`EngineMissing` is the `SystemExit` of `parse_binary`, which ends the batch.
`Plan` is the order of `process_file` and `run_batch`: objects, `sources.yaml`, the
relationships (the done-marker), then with `--derive` the relationships again,
inferred, content, then `stix_bundle.json`.

Abstractions: the evidence at a path is a sequence of files, each with its kind
and the objects its events populate; events are their objects.  The evidence
does not change while it is being parsed.  Of the pass over a source only what
reaches the disk is modelled; an exception in a pure pass is a `Raise`.

### Cascade

A source goes through `step`: `fold`, `enrich` (row after row, `turn`), `derive`,
`stix`, `built`; then the next source of the case.

| action | code |
|---|---|
| `Fold` | the parse results of `process_file` through `enrich.fold`; rows of a passthrough source through `load_anamnesis_car` first |
| `EnrichNext` | one turn of the loop of `enrich.enrich` |
| `Export` | `store.export_jsonl` and the declared edges: what is on disk before anything is derived |
| `DerivePass`, `NoDerivePass` | `superset.build_from_events` and `derive.derive_into`, with and without `--derive` |
| `StixPass` | `stix.export` over the tree |
| `NextSource` | the loop of `run_batch` |
| `Rederive` | `derive.run` over the tree of a source, any number of times |
| `ConvergeCase` | `crosssource.converge` over all trees |

The indexes of the cascade are built before the loop and refer to the rows
themselves, which the loop changes: `raw` is what the indexes were built from,
`rows` what they refer to.  The rules of `model/` and `rules/` (inheritance, links,
actors, reconstructions, identities, spoke verbs, edge verbs, Sigma columns) are
constants; MCCascade gives each one example of every shape the files have, not
every line.  An id is the tuple it is hashed from.

### Clients

The commands share nothing but the platforms, so `Clients` picks one (`client`)
and leaves the others where they start.

| actions of | code |
|---|---|
| `Timeline` | `build_from_elastic`: `OpenPit`, `Page` by `search_after`, `Close`; `Push` of a loader between any two of them; `SearchFails` at any request |
| `Setup` | each loader's GET, comparison and PUT of each template, each space's GET and POST, each import of saved objects; `RequestFails` at any of them; `Edit` by an operator |
| `Cti` | `pull_indicators` page by page (`StartPull`, `PullPage`, `PullFails`), `Modify` on the platform between any two steps, with any time of modification, `Write`: the bulk copy and the next watermark |
| `Verbs` | `run_export`, `run_sightings`, `run_behaviour`: `Assembling` with the validation, `WriteBundle`, `PushBundle` with an answer that may be refused, empty or lost, `RunAgain` |

## Runs

| run | question | result |
|---|---|---|
| `load_safety` | two loaders, one Elasticsearch, one fault: are reports, manifests and bundles true? | pass |
| `load_retry` | one loader, two faults, a tree that grows: does every run end, do reloads converge? | pass |
| `load_verify` | does exit 0 mean pushed and verified? | violated |
| `load_namespaces` | does exit 0 mean present, with two namespaces? | violated |
| `build_batch` | batch after batch with an exception, a kill and changed evidence: marker, isolation, progress | pass |
| `build_uptodate` | does exit 0 mean up to date? | violated |
| `build_fresh` | is a rebuilt tree free of what the last build left? | violated |
| `cascade_cases` | what do enrichment, derived pass, STIX projection, gate and convergence make of every small case? | pass |
| `cascade_sessions` | is a successful authentication linked to the login it opened? | violated |
| `cascade_accounts` | does an account in a bundle go by a name that some row gives it? | violated |
| `clients_cases` | timeline, setup, pull and exchange against platforms that others change: are their results right? | pass |
| `clients_resume` | does an incremental pull resume where the last one ended? | violated |

What the passing runs show:

- `VerifiedMeansPresent`, `PushOkMeansPresent`, `OkMeansPresent`: a verified
  stream, a manifest with `push_ok` and a run that ends ok each stand for
  documents that are in Elasticsearch, across kills, late answers and a second
  loader with the same ids.
- `MissingIsCounted`, `EachDocumentTalliedOnce`: no document is lost without a
  trace in the counters; none is counted twice by the push.
- `CreatedIsVerified`: what the run created is searchable when it is verified.
- `RunLeavesItsBundles`: a finished run left exactly its documents, and its
  manifest after them.
- `ImplementsEvidenceStore`: a refinement, with `claims` what the manifests with
  `push_ok` vouch for.
- `RunEnds`, `ReloadConverges`: liveness of one run and of repeated runs.
- `MarkerComesLast`, `MarkedObjectsKept`, `BuiltIsComplete`: the marker stands for
  complete object files and protects them; a source reported as built has
  everything it was asked for.
- `EachSourceInItsTurn`, `OneNameOneSource`, `ScratchOnlyFromCrashes`,
  `BatchEnds`, `EverySourceGetsMarked`: isolation and progress.

- `OwnerHeldThePid`, `AncestryHasNoCycle`: a row found by process id belongs to a
  process that lived then, under reuse of ids; parents by process id never lead
  back.
- `LinksIgnoreOrder`: the links of a process, a connection and a logout are the
  same for every order of the records, where the evidence decides them.  It compares
  each row with the cascade over every permutation of the records.  Where the evidence
  leaves a link open the code does go by the order: two creates of one process id at one
  instant (the sort is stable, `_match` takes the last), an end of a process recorded
  with a time and without, a LUID or session id with two logins and a connection uid
  with two rows (`setdefault` keeps the first).  `Undecided` names these fields of these
  rows, each of the cases is in the instance, and the property still says that they
  touch no other row and no other field.
- `EvidenceStays`: everything the records of an event say is in the one row they
  fold into, as its value or as a conflict under the artefact that says otherwise;
  an event is one row; and what a row says stays through the cascade, which sets
  links alone.  One exception is stated in the property: a rendering of a well-known
  account gets its one name.
- `RecordsStillCount`: the contributions of the rows add up to the records, and a
  Sigma rule that flags what a row says flags the row that is stored, unless the rule
  has a negation, which inheritance may fill.
- `SessionsAgree`: a login and the logout that closes it name each other, when
  several logouts close one login.
- `DerivedEndsExist`, `DeclaredSurviveRederive`: derived ends are rows, accounts or
  flagged nodes, never an inferred node beside an observed one; deriving again from
  disk makes the declared edges of the build.
- `GateAccepts`: the gate rejects a case only for what the evidence itself violates.
- `BundleIsClosed`, `NothingHomeless`, `EdgesReachTheBundle`: every reference of a
  bundle has its object, every stored column is in the bundle where a reader of
  the observation finds it, every relationship between observed ends is there.  stix.py says that
  "nothing homeless is dropped" (`_Row`), and `NothingHomeless` says of which columns that
  is false (`Dropped`), and that these are nowhere in the bundle: `_b_http` takes the scheme
  of a request off the row and uses it only when it is http or https, and `_b_process` takes
  the signer off as a property of a file that a row without path, name and hash does not
  have.  The name that a row gives a well-known account is left open.
- `ConvergeIsComplete`: rows of one intrinsic identity are grouped across
  sources, positional ids never are, the view has every member's values.
- `TimelineIsLocal`: paging a point in time while loaders write gives the timeline
  of the tree, each row once, and the projection's inverse gives the row back.
- `SetupOkMeansRendered`: loaders that set up at once do not leave a template or a
  space out, whatever failed or was edited in between.
- `CopyIsCurrent`: no indicator up to the watermark is missed by cursor paging,
  with equal times, and with modifications between pages and between pulls that
  come with any time.  It leaves out what no pull by `modified` can come to
  (`overtaken`): a version that came with a time the cursor or the watermark had already
  reached, and one at the very time at which `--max-pages` cut a pull.  The latter
  is what `PullResumes` is about.
- `SightingsSpanTheirAlerts`, `NewestSurvives`, `OkMeansSent`: alerts in any order give
  one sighting that counts and spans them; the newest version of an object is
  what is sent; a verb that ends well has written and pushed everything, and
  nothing invalid.

What the violated ones show is in `PROJECT.json` under findings: a verification that
cannot be made is not counted as a failure, the manifest is reused for another
namespace, the done-marker precedes the derived pass and a pass that raises is never
made up for, a forced rebuild leaves stale object files, a successful authentication
is linked to the last `user_session` row of its LUID even when that is the logout,
the node of a target account takes the name of the acting one, and of indicators
modified at one time those behind the cut of `--max-pages` are never pulled.
`OkMeansUpToDate` speaks of sources whose marker is whole: that a marker torn by a
failing export counts as done as well is a hazard of its own in the list.

### Bounds

- `load_safety`: two loaders (interchangeable: symmetry) with a directory each,
  two streams, five ids, one of them with two bodies, a document above the byte
  limit, rows that raise and rows without a time, at most two documents to a
  chunk and two to an ids query, so that of three documents the last query has one.  Chunk ends, several batches per stream,
  several streams, duplicates within a tree and between loaders all occur.  One
  fault: every property here is about the consequences of a fault, and two
  loaders already interleave with it; several faults are in `load_retry`.
  `MaxRebuilds` is 0 because `OkMeansPresent` speaks of the tree of today.
- `load_retry`: one loader, two faults, one rebuild, the same chunks and ids queries;
  its trees have no id twice.
  With one id in two sources the ids query counts fewer documents than the list
  holds, the stream is never verified and no run ever converges: a limit of the
  code this run is told to leave aside, listed among the hazards.
- `build_batch`: two sources, one of them walked twice under one name, an export
  with an unmapped file and a raw container, two objects, with and without
  force, derive and STIX; one exception, one kill, one change.  A source has up
  to eight file writes, each in two steps, so that each of them is hit by the
  exception and the kill.

- `cascade_cases`: thirteen families of rows (`MCCascade`), each with the rows of one
  concern, and every subset in every order: lineage with a reused process id up
  to 4 rows, two processes that began with one pid at one instant up to 3, an end
  recorded twice up to 4, login and connection ids used twice up to 3, missing owners, repeated events, sessions, captures, contents up to
  3, the remaining objects and the placement of their
  columns up to 2, and two sources of 1 and 2 rows for the
  convergence.  The families keep the fields of one concern
  together; what reaches across concerns (a file that names a process and an
  account and has a hash) is in `Contents` and `Others`.  Two
  hosts occur in `Missing`, `Sessions` and `Common`.  A process row never has its
  own guid as owner, as no mapping makes one.
- `clients_cases`: pages of two hits, two loaders with two templates (one composed
  of the other) and two spaces, one edit, three indicators on three points in time, so that equal times occur from
  the start, two modifications with any of the three times, three pulls of one item per
  page with at most two pages (the limit of pages cuts pulls, also between equal times), three alerts in any order, four hits with one of
  each shape that is skipped, two attempts.  Values that Elasticsearch would
  change in type, and rows whose primary and fallback column have the same value,
  are left out of the timeline's rows: the inverse projection cannot tell them
  apart, as it documents.

### Fairness

The properties of `Cascade` and `Clients` are safety and action properties;
their specifications state no fairness.

`Load`'s `FairSpec` has weak fairness of each loader's own steps: a request ends,
with or without an answer, because `http_json` passes a timeout, and everything
else is local.  `Start`, kills, lost answers becoming effective and rebuilds are
not fair.  `RetrySpec` adds what `ReloadConverges` supposes: the operator runs the
loader again, and Elasticsearch refreshes.  `Build`'s `FairSpec` has weak fairness
of the batch's own steps (`run_batch` is a sequential loop) and of starting the
next batch; faults are bounded, so that they stop.

## Proofs

The theorems hold for any sets of loaders, directories, streams, sources, objects,
templates, indicators and pages, any trees and projections, and any bounds that
satisfy the assumptions of the modules.  Each invariant below was first
checked by TLC on the instance of its run (`load_safety`, `build_batch`,
`clients_cases`, `cascade_cases`).

| module | theorem | states that `Spec` implies |
|---|---|---|
| `LoadProof` | `TypeCorrect` | `[]TypeOK` |
| | `VerifiedIsSound` | `[]VerifiedMeansPresent` |
| | `PushOkIsSound` | `[]PushOkMeansPresent` |
| | `LoadImplementsEvidenceStore` | `ImplementsEvidenceStore` |
| `LoadCountsProof` | `NoneIsLostSilently` | `[]MissingIsCounted` |
| | `TalliesAddUp` | `[]EachDocumentTalliedOnce` |
| | `CreatedIsCounted` | `[]CreatedIsVerified` |
| | `BundlesAreLeft` | `[]RunLeavesItsBundles` |
| | `OkIsSound` | `[]OkMeansPresent`, with one namespace |
| `BuildProof` | `TypeCorrect` | `[]TypeOK` |
| | `SourcesInTurn` | `[]EachSourceInItsTurn` |
| | `NamesAreUnique` | `[]OneNameOneSource` |
| | `BuiltTreesAreComplete` | `[]BuiltIsComplete` |
| | `ScratchIsCleared` | `[]ScratchOnlyFromCrashes` |
| | `MarkersComeLast` | `MarkerComesLast` (every step) |
| | `MarkedObjectsStay` | `MarkedObjectsKept` (every step) |
| `ClientsProof` | `SetupIsRendered` | `[]SetupOkMeansRendered` |
| | `CopyIsUpToDate` | `[]CopyIsCurrent` |
| | `OkIsSent` | `[]OkMeansSent` |
| | `NewestIsSent` | `[]NewestSurvives` |
| | `SightingsAreSpans` | `[]SightingsSpanTheirAlerts` |
| `CascadeProof` | `TypeCorrect` | `[]TypeOK` |
| | `EvidenceAlwaysStays` | `[]EvidenceStays` |
| | `SessionsAlwaysAgree` | `[]SessionsAgree` |
| | `OwnerAlwaysHeldThePid` | `[]OwnerHeldThePid` |
| | `AncestryNeverCycles` | `[]AncestryHasNoCycle` |
| | `DerivedEndsAlwaysExist` | `[]DerivedEndsExist` |
| | `DeclaredAlwaysSurvive` | `DeclaredSurviveRederive` (every step) |
| | `ConvergenceIsComplete` | `ConvergeIsComplete` (every step) |

With these every safety property of `load_safety` and `build_batch` is proved, five of
the six of `clients_cases`, and eight of the fourteen of `cascade_cases`.

### Assumptions

They are named where the constants are declared.  `Load`: every loader has a
directory, there is an option, the projection of a part of a tree is one list of
documents per stream, a tree is a function (`TreesAssumption`), the bounds are
natural numbers.  `Build`: the objects have one order, without repetition
(`ObjectOrderAssumption`; the code takes them sorted), the evidence of a source is a
sequence of files.  `Clients`: templates
and spaces are sequences, and saved objects are by space (`SetupAssumption`); there is
a page size and a finite number of indicators, numbered in the order the platform
pages those of one time (`CtiAssumption`); an export reads lists
of bundles, each a list of objects with a time (`ExportsAssumption`); alerts and their
enrichments are lists and their times numbers (`AlertsAssumption`).  `Cascade`: a
case is a list of sources, each a list of rows, and every row has an object of the
model and a host and, if it has a timestamp, a number for it; no parser names the target
of an injection, which the cascade finds for threads only (`CasesAssumption`; enrich.py
line 654 is the one place that sets `target_process_guid`).  The columns that declared
edges are read off are stored, and so are those that `association_properties` takes
their properties from, for the object that such an edge is of (`StoredAssumption`;
store.py `HEADER` and the fields of the model).  Of the records of one source, an id that
is referred to is of one kind of node, and a source that names the targets of
injections names no owners (`ReferencesAssumption`; the engine hands every row over
without an `owning_guid`, normalize.go line 108, and Anamnesis's rows, which have it, do
not have Sysmon's `TargetProcessGuid`).  The rules of reconstruction refer by columns that
no turn sets, a rule whose edge does not end at the row ends at the row's owner, and
accounts act by the fields that make them content (`RulesAssumption`;
`relationships.yml`, `reconstruct`, `actors` and the identity `sid`).  `Enrich` has three
about the tables of the code: a missing process id does not parse (`PidAssumption`;
`_to_int` of nothing is nothing); inheritance fills no column that the cascade looks
rows up by or links them with, and a well-known account has a name
(`ColumnsAssumption`; the `inheritance` lists of `relationships.yml`); the
columns that tell events apart are none that the fold itself writes, and the object is
one of them (`KeyAssumption`; `dedupe.key`).

`OkIsSound` alone has a hypothesis beyond these: that there is only one
namespace.  With two the statement is false, as the run `load_namespaces` shows.

### Load

`TypeOK` is not inductive: `First(todo[l])` has a meaning only where something is
left to do, so `TypeInv` adds `InHand`, a loader that pushes, verifies or fills has
a stream in hand.  `VerifiedMeansPresent` is about the end of a count that runs
over several steps, during which other loaders and late requests change the
store.  The inductive invariant `SafetyInv` therefore has, for each loader,
`Knows`: what the running total stands for.  The total never exceeds the
positions asked for, and when it equals them, every one of those documents is
stored; a stream already verified is all stored; between runs nothing is
verified.  The steps of the others keep it because the store only grows
(`StoreOnlyGrows`), which is where `create` instead of `index` is needed.  A count
that reaches the length of the list then means that all of it is there: an ids
query finds at most as many ids as it asks for, and as many only when all are
found (`FoundIsBounded`, by cardinalities of finite sets).  `PushOkMeansPresent`
follows where the manifest is written, and stays, again because the store grows.
For the refinement, a step that changes the store is `PushAnswered` or `Land`,
and each adds documents with new and distinct ids to one data stream
(`FreshIsNew`); every other step keeps the store and leaves claims that
`PushOkMeansPresent` covers.

The counters need to know where a push is.  `CountsInv` is `SafetyInv` with
`HiddenStored` (what awaits a refresh is stored) and, for each loader, `Counts`:
before the projection nothing is counted (`Blank`); of the stream in hand there is
an answer for every document sent, of the others none (`Tallied`); when all that
was sent was created, its ids differ and a search finds them (`Visible`), and
every ids query counted all it asked for (`AllCounted`); a document that is neither
stored nor still to be sent is covered by a failure (`LostCounted`).  The last is an
inequality between a cardinality and a counter: an unanswered request adds its
whole chunk to the failures, which bounds what it may have lost, applied or not.

`RunLeavesItsBundles` is about a directory nobody shares.  `BundlesInv` adds
`Bundled`: which bundles are filled by the step the loader is at, and that a file
opened is torn until it is written.  `StatusInv`, for `OkMeansPresent`, adds where the
documents of a run come from: they are the projection of the tree of its sources
(`OfTree`), so are those a manifest remembers (`ManifestsOfTree`), and a run that
skipped skipped for such a manifest.  `Status` is stated with `NoneFailed`, the sum
of the failed counters being zero, as the sum itself is a fold.

### Build

`BuiltIsComplete` needs, of the source in hand, that what is written so far is the
prefix of `plan` before the file in hand (`Writing`), and that the derived files
are told apart.  `WriteInv` is `TypeInv`, which adds to `TypeOK` the place in the batch
(`Turns`) and the files still to parse (`Parsing`), with `Writing` and `Unmarked`: a
source being written has no marker before its objects are all whole.  A `Raise`, a
kill or `EngineMissing` leave any prefix; `MarkerComesLast` follows because the marker
is opened only when everything before it in `plan` is filled.  `MarkedObjectsKept`
follows from the done-check at the start of a source.  `ScratchOnlyFromCrashes`
counts: `Scratch` says that the directories left over are at most one for each kill,
one more while a split is in hand, and is proved by cardinalities.  `OneNameOneSource`
is about sequences: the first item of each name (`FirstOfItsName`) taken by
position, with the lemmas on `Nth` and `Rank`, that numbering a finite set of
positions is a bijection.

### Clients

`SetupInv` is the type with, for each loader that has not failed yet, `Progress`: each
step it has gone past is done, unless the operator touched the item since, and
`Importing`: it imports into a space it has seen or made.  Other loaders only ever
write what the tree says, so they keep it.  `CtiInv` has the two facts behind cursor
paging, both of the indicators that are not `overtaken`: what is at most the watermark is
in the copy as current (`Copied`), and while a pull runs, everything beyond the
watermark and not beyond its cursor is among the pulled as it now is (`Pulled`).  The
cursor is a place, a time and among equal times a number, so that the argument goes by
the lexicographic order of places (`BeforeIsOrder`): the page is the set of the first
ones, and its last one is the cursor (`PageIsFirst`, `EndCursorIsLast`).  A modification
either puts its indicator beyond the cursor and the watermark, where it is still to come,
or makes it overtaken.  At the end of a pull the watermark goes to the newest time
pulled (`NewestTime`); what has that time and is beyond the cursor becomes overtaken.  The verbs need
`VerbType` and `VerbInv`: a verb that is past a step did it well.

`NewestSurvives` is about a merge in the order of the bundles and, in them, of their
objects.  Of the objects with one id it keeps the first of those with the greatest
time; the model says so by id, without the fold, and the proof (`NewestInv`) then is
that among finitely many objects of an id there is one that supersedes the others.

`SightingsSpanTheirAlerts` is about two folds, over the alerts and in each over its
enrichments, whose step looks up what the steps before have made.  It is proved by
induction over the lists.  The library states induction with an operator as a
parameter, which no prover here can instantiate; `FoldProof` therefore has the step `Op`
and the invariant `Inv` as constants, proves `FoldKeeps` once, down to the definition of
the fold in the community modules and well-founded induction on numbers (the recursive
function of that definition has to be shown to exist first), and each use of it is an
INSTANCE with an `Op` and an `Inv` of its own.  The invariant of the two folds is
`SightingsSo`: for each key, of the enrichments gone past that tell of it (`Told`) there
are none and there is no sighting, or the sighting counts them and goes from the
earliest to the latest.

### Cascade

The cascade changes rows in place while its indexes point into them, so that a turn
reads what earlier turns wrote.  The proofs rest on what a turn *may* write.
`OnlySets(a, b, columns)` says that b is a but for those columns, and the lemmas of
`EnrichProof` compose it over the stages of a turn, with `LinkColumns`, `LineageColumns`
and `JoinColumns` the sets of columns that matter: no turn sets a column the indexes
look rows up by (`SameJoins`, `JoinsStay`; here inheritance must leave them alone,
`ColumnsAssumption`), and lineage and sessions are set by different stages
(`LineageIsApart`).  `TurnIs` then says that a turn is the pairing of sessions, which
writes two rows at once, followed by the lineage of the row in hand.

`IInv` has where the batch is (`InPlace`), that the rows in hand are empty between
sources (`Waiting`) and otherwise (`Working`) come from a fold and satisfy `Cascading`:
every row is what was folded but for links; a row that had its turn has, for every
process found by its pid, a process that held the pid then (`LineageHolds`); and every
session closed so far agrees with its logout.  `OwnerHeldThePid` is not inductive
itself, as it speaks of the end of the loop; nor is agreement of one session without
that of all, as a later logout takes the session from an earlier one.

`EvidenceStays` needs the fold, which the code does one record at a time.  In the model
the fold has a closed form: the rows are the first records of their events, in order,
and a row's columns, conflicts and contributors are what the first, or every, record of
its event has.  The lemmas `GroupIs`, `CoalescedIs`, `AdditiveIsComplete` and `FoldIs`
say what such a row keeps of each of its records; TLC compares the rest with the
contributions of the records (`RecordsStillCount`).

`AncestryHasNoCycle` follows from the lifetimes: a parent found by pid was not created
after its child (`ParentIsOlder`), so that on a way round all times are equal: of the
processes on it take those created first; each has its parent among them, so
they are a way themselves.

`DeclaredSurviveRederive` compares what the build made from the rows in memory with what
a later pass makes from the rows on disk.  Its invariant (`Declaring`) is that the
declared relationships of a tree are those that its stored rows declare, and, while a
source waits for its derived pass, that its rows in memory declare the same.  This needs
that the files hold every row, which is that places by object and position are a
bijection (`FilesAre`, from `PlaceIsBijective`); that a stored row declares what the whole
row did (`DeclaredStay`), column by column, where a target of an injection on a row that
is not a thread would have unstored properties (`TargetsStay` excludes it); and that the
derived pass makes no declared edges (`DerivingAdds`).  For the latter the edges of
links are in closed form: of the attempts of one rule to join two rows the first one
makes the edge, as `seen` has it in `link_edges`.

`DerivedEndsExist` is about three families of edges, and for each the other end is told
elsewhere.  `Deriving` says what the tree in hand is: before the pass what was exported,
after it one whose derived ends are there (`EndsExist`).  A link joins two rows of one host
(`LinkEnds`).  An account that acts is one that some row names, and it has a node
because the mentions of content go over all rows and fields (`AccountIsContent`, from
`FlattenHas`, what a sequence of flattened sequences has).  The missing end of an inferred
edge has a node: the nodes are a fold over the inferences in which each finds its node
by id and host or appends it, and the next ones add to it in place; its invariant
(`NodesSo`, another instance of `FoldProof`) is that every node is about one of the
inferences made so far and that each of these has a node.  As the store keeps nodes by
id alone, the node that is kept may be that of another host; it still is of the same
kind, because ids are (`OneKind`).  The other end of an inferred edge is the row or,
for the target of an injection, the row's owner: here the cascade comes in, where
`OwnerIsThere`, a part of `Cascading`, says that an owner that a turn has set is a process
that a row of the host creates, and `FoldedFrom` that an owner that is not set by a turn
was named by a record.  No node is inferred that a row is about, as `Observed` is asked
before; the rows on disk are the same ends as those in memory (`RowEndsAre`).

For `ConvergeIsComplete` the groups too are in closed form, one for each set of rows
that a bucket joins, of the strongest tier that joins it (`GroupsAre`); that a bucket of
two sources is found (`SharedIs`) is a matter of cardinalities, and a positional row is in
no bucket of the first tier as it has no key there.

### Only model-checked

- All liveness (`RunEnds`, `ReloadConverges`, `BatchEnds`, `EverySourceGetsMarked`): out of
  the prover's reach.
- `LinksIgnoreOrder`: it compares the cascade over every permutation of the records,
  and the cascade over a whole list is a fold of turns: an induction over data.
- `RecordsStillCount`: sums of contributions, and rules evaluated by recursion over
  their conditions.
- `BundleIsClosed`, `NothingHomeless`, `EdgesReachTheBundle`, `GateAccepts`: the objects of
  the projection are some forty kinds, each by rules of its own, and the gate compares
  every one of its checks; that is much to prove, and the instances exercise every rule.
- `TimelineIsLocal`: the local and the paged timeline are sorted sequences, and the
  sort of the library is defined by choice over permutations.

## Not modelled

- The Go engine and the log2timeline splitter: linear passes from a file to rows,
  with golden vectors; `Build` sees them succeed, fail, or be missing.
- Ids: an id is the tuple it is hashed from.  The hash itself, the Spindle registry
  and the agreement of its two languages are checked by golden vectors.
- Parsing of rules and expressions, and numeric comparison in an analytic: a rule
  is its parsed form, over equality and text tests.
- Formatting (time stamps, patterns, log lines, report texts), arguments,
  environment and configuration.
- Schema and model generators and the static validation of rules: development-time
  programs without run-time state.
- The L1 registry of evidence assets, shared with the Go engine; see the plan.

Behaviours met on the way that no property forbids: `push_all` adds the verification
shortfall to the failures that `push_stream` has booked already, so that a document
that is rejected counts twice, and a push with one stream sent and verified can end
as "failed", which the table of exit codes gives to "every stream failed to push"
(cli.py line 92), and not as "partial"; of several rows with one guid, edges end at
the observation of the last (stix.py `obs`); inferred nodes are keyed by id alone,
so that one LUID on two hosts is one node (superset.py `inferred_nodes`); two
loaders that create one Kibana space race, and the second gets 409 and counts the
space as failed, though it is there; an indicator that is revoked or no longer gives
a document keeps its earlier one in the copy. Of stix-behaviour: the parser of the
YARA lane takes no hash from a match, so that the join of a file or disk match by
hash that the module's docstring names (behaviour.py line 34) is never taken; a YARA
match that names a host with no such process falls back to the process with that id
on any other host (`CarIndex.match`); and a second firing of one rule on one entity
is counted in the report but leaves the sighting with the time of the first, as all
alerts of one lane have one detection id.

## The plan

1. `BundleIsClosed` as a theorem: the objects that `content_ref` and `_end` refer to are
   made by the row that refers to them or by an earlier one, as in `AccountIsContent`.
2. `TreeLoad`: `Build` and `Load` composed over one tree, with the abstract
   promise that what is finished and loaded is what was built; half-built and
   rebuilt sources.
3. The L1 registry: engines in two languages that register into one store.
