------------------------------- MODULE Build -------------------------------
(***************************************************************************)
(* `byakugan build` (byakugan/pipeline.py): one batch after another turns    *)
(* each discovered source into its own tree of files.  A source is parsed   *)
(* file by file into memory; then its files are written in order: one       *)
(* car_<object>.jsonl per populated object, sources.yaml, the relationships *)
(* (whose existence marks the source as built), and what --derive and       *)
(* --stix add.  Any step may raise, and the process may be killed.          *)
(***************************************************************************)
EXTENDS Naturals, Sequences, FiniteSets, Functions, Positions

CONSTANTS
  Path,         \* where evidence lies in the processed tree
  Source,       \* source names
  Walked,       \* what the lane walkers yield: a sequence of [name, path]
  ObjectOrder,  \* the CAR objects, in the order of the model
  Evidence,     \* what may lie at a path: sequences of [kind, objects]
  Options,      \* the [force, derive, stix] a batch may be started with
  MaxFaults,    \* bound: steps that raise
  MaxCrashes,   \* bound: processes killed
  MaxChanges    \* bound: changes of the evidence

Object == Range(ObjectOrder)

Kind == {"raw", "mapped", "unmapped", "passthrough"}

\* The model lists every object once, and none is named like another file.
ASSUME ObjectOrderAssumption ==
  /\ ObjectOrder \in Seq(Object) /\ IsInjective(ObjectOrder)
  /\ Object \cap {"sources", "relationships", "inferred", "content", "stix"} = {}
ASSUME WalkedAssumption == Walked \in Seq([name : Source, path : Path])
ASSUME EvidenceAssumption ==
  Evidence # {} /\ Evidence \subseteq Seq([kind : Kind, objects : SUBSET Object])
ASSUME OptionsAssumption ==
  Options # {} /\ Options \subseteq [force : BOOLEAN, derive : BOOLEAN, stix : BOOLEAN]
ASSUME BoundsAssumption ==
  MaxFaults \in Nat /\ MaxCrashes \in Nat /\ MaxChanges \in Nat

\* The files of a source's tree; an object stands for its car_<object>.jsonl.
Derivatives == {"sources", "relationships", "inferred", "content", "stix"}
File == Object \cup Derivatives

Absent == [absent |-> TRUE]
Torn == [torn |-> TRUE]

VARIABLES
  evidence,   \* what lies at each path now
  disk,       \* the output tree of each source
  scratch,    \* number of .car_l2t_ directories in it
  pc,         \* where the batch is
  opt,        \* its options
  queue,      \* discovered sources it has not finished
  file,       \* next file of the source in hand
  events,     \* objects its parsed events populate
  plan,       \* files it still has to write
  results,    \* one entry per finished source
  outcome,    \* the status of the batch it has just finished
  faults, crashes, changes   \* (bounded)

sourceVars == <<file, events, plan>>
countVars == <<faults, crashes, changes>>
vars == <<evidence, disk, scratch, pc, opt, queue, file, events, plan, results,
          outcome, faults, crashes, changes>>

-----------------------------------------------------------------------------
\* A mutant: every walked item stays, one name twice or not.
DiscoveredTwice(walked) == walked

\* discover_sources: one source, one name; the first one wins.
FirstOfItsName(walked) ==
  {i \in DOMAIN walked : \A j \in 1..(i - 1) : walked[j].name # walked[i].name}
Discovered(walked) == Picked(walked, FirstOfItsName(walked))

InHand == Head(queue).name

Input == evidence[Head(queue).path]

Entry(f, derived) == [file |-> f, derived |-> derived]

\* A mutant: the marker is written first.
PlanMarkerFirst(objects, o) ==
  <<Entry("relationships", FALSE)>>
    \o [i \in 1..Len(objects) |-> Entry(objects[i], FALSE)]
    \o <<Entry("sources", FALSE)>>

\* What is written after the objects; --derive exports the relationships a
\* second time.
Afterwards(o) ==
  <<Entry("sources", FALSE), Entry("relationships", FALSE)>>
    \o (IF o.derive
        THEN <<Entry("relationships", TRUE), Entry("inferred", TRUE), Entry("content", TRUE)>>
        ELSE <<>>)
    \o (IF o.stix THEN <<Entry("stix", o.derive)>> ELSE <<>>)

\* The order process_file and run_batch write a source's files in.
Plan(objects, o) ==
  [i \in 1..Len(objects) |-> Entry(objects[i], FALSE)] \o Afterwards(o)

\* CarStore.counts: the objects some event populates, in the model's order.
InOrder(objects) ==
  Picked(ObjectOrder, {i \in DOMAIN ObjectOrder : ObjectOrder[i] \in objects})

\* The evidence the object files of a tree come from; stix.export reads it
\* back from there, whatever put it there.
Origins(tree) == UNION {tree[o].from : o \in {x \in Object : tree[x] \notin {Absent, Torn}}}

\* A mutant: the second export keeps the first one's relationships.
ContentUnderived(e, tree, input) ==
  [from |-> IF e.file = "stix" THEN Origins(tree) ELSE {input}, derived |-> FALSE]

\* What a file holds when it is complete.
ContentOf(e, tree, input) ==
  [from |-> IF e.file = "stix" THEN Origins(tree) ELSE {input}, derived |-> e.derived]

\* os.path.isfile(car_relationships.jsonl): whatever it holds.
IsMarked(tree) == tree["relationships"] # Absent

\* Mutants: the derived pass is waited for; any object file marks the source.
SkippableIfDerived == ~opt.force /\ disk[InHand]["inferred"] # Absent
SkippableIfStarted == ~opt.force /\ \E o \in Object : disk[InHand][o] # Absent

\* The idempotency skip of run_batch.
Skippable == ~opt.force /\ IsMarked(disk[InHand])

Result(status) == [name |-> InHand, status |-> status, from |-> Input]

\* A mutant: an error ends the batch.
FinishAndStop(status) ==
  /\ results' = Append(results, Result(status))
  /\ queue' = IF status = "error" THEN <<>> ELSE Tail(queue)
  /\ pc' = "next"
  /\ file' = 1 /\ events' = {} /\ plan' = <<>>

\* The source in hand is finished: one entry in the results, on to the next.
FinishSource(status) ==
  /\ results' = Append(results, Result(status))
  /\ queue' = Tail(queue)
  /\ pc' = "next"
  /\ file' = 1 /\ events' = {} /\ plan' = <<>>

-----------------------------------------------------------------------------
(***************************************************************************)
(* run_batch                                                               *)
(***************************************************************************)
StartBatch ==
  /\ pc = "idle"
  /\ opt' \in Options
  /\ queue' = Discovered(Walked)
  /\ pc' = "next"
  /\ UNCHANGED <<evidence, disk, scratch, sourceVars, results, outcome, countVars>>

SkipSource ==
  /\ pc = "next" /\ queue # <<>>
  /\ Skippable
  /\ FinishSource("skipped")
  /\ UNCHANGED <<evidence, disk, scratch, opt, outcome, countVars>>

TakeSource ==
  /\ pc = "next" /\ queue # <<>>
  /\ ~Skippable
  /\ pc' = "parse"
  /\ UNCHANGED <<evidence, disk, scratch, opt, queue, sourceVars, results,
                 outcome, countVars>>

\* A mutant: a file nobody routes is never got past.
ParseRoutedFile ==
  /\ pc = "parse" /\ file <= Len(Input)
  /\ Input[file].kind \in {"mapped", "passthrough"}
  /\ events' = events \cup Input[file].objects
  /\ file' = file + 1
  /\ UNCHANGED <<evidence, disk, scratch, pc, opt, queue, plan, results,
                 outcome, countVars>>

\* One file of the source, routed to its maps and run through the engine once;
\* a finished car.db is read as it is, an unrouted file adds nothing.
ParseFile ==
  /\ pc = "parse" /\ file <= Len(Input)
  /\ Input[file].kind # "raw"
  /\ events' = events \cup Input[file].objects
  /\ file' = file + 1
  /\ UNCHANGED <<evidence, disk, scratch, pc, opt, queue, plan, results,
                 outcome, countVars>>

\* A raw log2timeline container is split into a temporary directory beside
\* the output, and each of its tables is parsed.
SplitFile ==
  /\ pc = "parse" /\ file <= Len(Input)
  /\ Input[file].kind = "raw"
  /\ scratch' = [scratch EXCEPT ![InHand] = @ + 1]
  /\ pc' = "tables"
  /\ UNCHANGED <<evidence, disk, opt, queue, sourceVars, results, outcome, countVars>>

ParseTables ==
  /\ pc = "tables"
  /\ events' = events \cup Input[file].objects
  /\ scratch' = [scratch EXCEPT ![InHand] = @ - 1]
  /\ file' = file + 1
  /\ pc' = "parse"
  /\ UNCHANGED <<evidence, disk, opt, queue, plan, results, outcome, countVars>>

\* All files are parsed: enrich, and the store that will be exported.
Enrich ==
  /\ pc = "parse" /\ file > Len(Input)
  /\ plan' = Plan(InOrder(events), opt)
  /\ pc' = "open"
  /\ UNCHANGED <<evidence, disk, scratch, opt, queue, file, events, results,
                 outcome, countVars>>

\* open(path, "w") truncates what is there.
Open ==
  /\ pc = "open" /\ plan # <<>>
  /\ disk' = [disk EXCEPT ![InHand][Head(plan).file] = Torn]
  /\ pc' = "fill"
  /\ UNCHANGED <<evidence, scratch, opt, queue, sourceVars, results, outcome, countVars>>

\* The rows are written and the file is closed.
Fill ==
  /\ pc = "fill"
  /\ disk' = [disk EXCEPT ![InHand][Head(plan).file] =
                ContentOf(Head(plan), disk[InHand], Input)]
  /\ plan' = Tail(plan)
  /\ pc' = "open"
  /\ UNCHANGED <<evidence, scratch, opt, queue, file, events, results, outcome, countVars>>

SourceBuilt ==
  /\ pc = "open" /\ plan = <<>>
  /\ FinishSource("built")
  /\ UNCHANGED <<evidence, disk, scratch, opt, outcome, countVars>>

\* Mutants: the temporary directory of a failed split stays; one is removed
\* although none was made.
ScratchLeft == scratch
ScratchOverRemoved == [scratch EXCEPT ![InHand] = @ - 1]

\* The finally clause around the split.
ScratchRemoved ==
  IF pc = "tables" THEN [scratch EXCEPT ![InHand] = @ - 1] ELSE scratch

\* An exception: the engine exits non-zero, a row cannot be exported, the disk
\* is full, a pass raises.  The batch goes on with the next source.
Raise ==
  /\ pc \in {"parse", "tables", "open", "fill"}
  /\ pc = "open" => plan # <<>>
  /\ faults < MaxFaults
  /\ faults' = faults + 1
  /\ scratch' = ScratchRemoved
  /\ FinishSource("error")
  /\ UNCHANGED <<evidence, disk, opt, outcome, crashes, changes>>

\* SystemExit, which is no Exception: the parse engine is missing.  It ends
\* the whole batch, with status config_error.
EngineMissing ==
  /\ \/ pc = "tables"
     \/ pc = "parse" /\ file <= Len(Input) /\ Input[file].kind \in {"mapped", "raw"}
  /\ faults < MaxFaults
  /\ faults' = faults + 1
  /\ scratch' = ScratchRemoved
  /\ outcome' = "config_error"
  /\ pc' = "done"
  /\ file' = 1 /\ events' = {} /\ plan' = <<>>
  /\ UNCHANGED <<evidence, disk, opt, queue, results, crashes, changes>>

Errors == {i \in DOMAIN results : results[i].status = "error"}

\* The exit code of pipeline.main and the status of cli._build.
EndBatch ==
  /\ pc = "next" /\ queue = <<>>
  /\ outcome' = IF DOMAIN results = Errors THEN "nothing"
                ELSE IF Errors # {} THEN "partial" ELSE "ok"
  /\ pc' = "done"
  /\ UNCHANGED <<evidence, disk, scratch, opt, queue, sourceVars, results, countVars>>

Forget ==
  /\ pc' = "idle"
  /\ opt' = CHOOSE o \in Options : TRUE
  /\ queue' = <<>>
  /\ file' = 1 /\ events' = {} /\ plan' = <<>>
  /\ results' = <<>>
  /\ outcome' = "none"

\* The batch has printed its results and exits.
Return ==
  /\ pc = "done"
  /\ Forget
  /\ UNCHANGED <<evidence, disk, scratch, countVars>>

\* The process is killed; the files stay as they are.
Crash ==
  /\ pc \notin {"idle", "done"}
  /\ crashes < MaxCrashes
  /\ crashes' = crashes + 1
  /\ Forget
  /\ UNCHANGED <<evidence, disk, scratch, faults, changes>>

\* The processing tools replace the evidence at a path, though not while it is
\* being parsed.
Collect(p) ==
  /\ changes < MaxChanges
  /\ pc \notin {"idle", "next", "done"} => Head(queue).path # p
  /\ changes' = changes + 1
  /\ \E e \in Evidence \ {evidence[p]} : evidence' = [evidence EXCEPT ![p] = e]
  /\ UNCHANGED <<disk, scratch, pc, opt, queue, sourceVars, results, outcome,
                 faults, crashes>>

Init ==
  /\ evidence \in [Path -> Evidence]
  /\ disk = [s \in Source |-> [f \in File |-> Absent]]
  /\ scratch = [s \in Source |-> 0]
  /\ pc = "idle"
  /\ opt = CHOOSE o \in Options : TRUE
  /\ queue = <<>>
  /\ file = 1 /\ events = {} /\ plan = <<>>
  /\ results = <<>>
  /\ outcome = "none"
  /\ faults = 0 /\ crashes = 0 /\ changes = 0

\* What the batch does by itself.
Run ==
  \/ SkipSource \/ TakeSource \/ ParseFile \/ SplitFile \/ ParseTables
  \/ Enrich \/ Open \/ Fill \/ SourceBuilt \/ Raise \/ EngineMissing
  \/ EndBatch \/ Return

Next == StartBatch \/ Run \/ Crash \/ \E p \in Path : Collect(p)

Spec == Init /\ [][Next]_vars

\* The batch's own steps are never abandoned, and it is run again and again.
FairSpec == Spec /\ WF_vars(Run) /\ WF_vars(StartBatch)

-----------------------------------------------------------------------------
(***************************************************************************)
(* Properties                                                              *)
(***************************************************************************)
Contents == [from : SUBSET Evidence, derived : BOOLEAN]

\* Every variable has its type, and a batch at work has a source in hand.
TypeOK ==
  /\ evidence \in [Path -> Evidence]
  /\ disk \in [Source -> [File -> {Absent, Torn} \cup Contents]]
  /\ scratch \in [Source -> Nat]
  /\ pc \in {"idle", "next", "parse", "tables", "open", "fill", "done"}
  /\ opt \in Options
  /\ queue \in Seq([name : Source, path : Path])
  /\ pc \in {"parse", "tables", "open", "fill"} => queue # <<>>
  /\ file \in Nat \ {0} /\ events \subseteq Object
  /\ plan \in Seq([file : File, derived : BOOLEAN])
  /\ results \in Seq([name : Source, status : {"built", "skipped", "error"},
                      from : Evidence])
  /\ outcome \in {"none", "ok", "partial", "nothing", "config_error"}
  /\ faults \in 0..MaxFaults /\ crashes \in 0..MaxCrashes /\ changes \in 0..MaxChanges

Populated(e) == UNION {e[i].objects : i \in DOMAIN e}

\* The object files of e are complete in a tree.
ObjectsComplete(tree, e) ==
  \A o \in Populated(e) : tree[o] = [from |-> {e}, derived |-> FALSE]

\* The done-marker of a source appears when every object file of the evidence
\* it was built from is complete, whatever was killed or raised before
\* (pipeline.py process_file, superset.build_from_events).
MarkerComesLast ==
  [][\A s \in Source :
       ~IsMarked(disk[s]) /\ IsMarked(disk'[s]) =>
         s = InHand /\ ObjectsComplete(disk[s], Input)]_vars

\* The files the options ask for, beside the objects.
Asked(o) == {"sources", "relationships"}
              \cup (IF o.derive THEN {"inferred", "content"} ELSE {})
              \cup (IF o.stix THEN {"stix"} ELSE {})

\* A tree with every file the options ask for, from the evidence e.
Complete(tree, e, o) ==
  /\ ObjectsComplete(tree, e)
  /\ \A f \in Asked(o) : tree[f] \notin {Absent, Torn}
  /\ o.derive => tree["relationships"].derived

\* A source a running batch reports as built has the complete tree the batch
\* was asked for, and keeps it (pipeline.py run_batch).
BuiltIsComplete ==
  \A i \in DOMAIN results :
    results[i].status = "built" => Complete(disk[results[i].name], results[i].from, opt)

\* Without force the object files of a marked source never change again: a
\* later batch, a failing one or a killed one leaves them alone (pipeline.py
\* run_batch, the idempotency skip).
MarkedObjectsKept ==
  [][~opt.force =>
       \A s \in Source, o \in Object :
         IsMarked(disk[s]) => disk'[s][o] = disk[s][o]]_vars

Names(seq) == [i \in 1..Len(seq) |-> seq[i].name]

\* One failing source never stops the rest: what is reported and what is still
\* to do are always the discovered sources, each once and in their order
\* (pipeline.py run_batch).
EachSourceInItsTurn ==
  pc # "idle" => Names(results) \o Names(queue) = Names(Discovered(Walked))

\* A name stands for one source in one batch, so that no tree is built from
\* two (pipeline.py discover_sources).
OneNameOneSource ==
  \A i, j \in DOMAIN results : results[i].name = results[j].name => i = j

\* The temporary directories there are, numbered in each tree.
Directories == UNION {{s} \X (1..scratch[s]) : s \in Source}

\* A temporary split directory outlives the split only when the process was
\* killed in it (pipeline.py process_file, the finally clause).
ScratchOnlyFromCrashes ==
  Cardinality(Directories) <= crashes + (IF pc = "tables" THEN 1 ELSE 0)

\* A batch that starts ends, whatever raises (pipeline.py run_batch).
BatchEnds == pc # "idle" ~> pc = "idle"

\* Run again and again, the batch gets every source marked once faults have
\* stopped: none is left behind by the failures of others (pipeline.py
\* run_batch, cli.py exit codes).
EverySourceGetsMarked ==
  <>[](\A i \in DOMAIN Walked : IsMarked(disk[Walked[i].name]))

-----------------------------------------------------------------------------
(***************************************************************************)
(* What the documentation says and the code does not do                    *)
(***************************************************************************)
\* Exit code 0 of a build: "every source processed or already up to date" (cli.py:82); of
\* the sources whose done-marker is whole.
OkMeansUpToDate ==
  pc = "done" /\ outcome = "ok" =>
    \A i \in DOMAIN Discovered(Walked) :
      LET d == Discovered(Walked)[i]
      IN  disk[d.name]["relationships"] # Torn => Complete(disk[d.name], evidence[d.path], opt)

\* The object files of a tree are "re-written fresh from this file each run"
\* (pipeline.py:289-291): a source just built has no row of other evidence.
BuiltTreeIsFresh ==
  \A i \in DOMAIN results :
    results[i].status = "built" => Origins(disk[results[i].name]) \subseteq {results[i].from}
=============================================================================
