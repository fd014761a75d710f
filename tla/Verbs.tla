-------------------------------- MODULE Verbs --------------------------------
(***************************************************************************)
(* The verbs of byakugan.exchange that make a bundle: stix-export               *)
(* (run_export), cti-sightings (run_sightings) and stix-behaviour                *)
(* (run_behaviour).  Each reads its inputs, assembles, validates, writes the       *)
(* --out file and then, the first two, pushes to OpenCTI.  The operator may run      *)
(* a verb that failed again; meanwhile the input may have grown.                       *)
(***************************************************************************)
EXTENDS Joins

CONSTANTS
  Exports,       \* inputs of stix-export: [docs, bundles]
  AlertLists,    \* inputs of cti-sightings: sequences of alerts
  Firings,       \* inputs of stix-behaviour: [tree, paths, lanes]
  MaxAttempts    \* bound on how often a verb is run

\* The bundles of an input are lists of objects with an id, and times are numbers.
IsBundle(b) ==
  /\ b \in Seq({b[k] : k \in DOMAIN b})
  /\ \A k \in DOMAIN b : Modified(b[k]) \in Nat
ASSUME ExportsAssumption ==
  \A input \in Exports :
    /\ input.bundles \in Seq({input.bundles[b] : b \in DOMAIN input.bundles})
    /\ \A b \in DOMAIN input.bundles : IsBundle(input.bundles[b])

\* Alerts and their enrichments are lists, and the times of an alert are numbers.
ASSUME AlertsAssumption ==
  \A alerts \in AlertLists :
    /\ alerts \in Seq({alerts[k] : k \in DOMAIN alerts})
    /\ \A k \in DOMAIN alerts :
         LET list == alerts[k].enrichments
         IN  /\ list \in Seq({list[j] : j \in DOMAIN list})
             /\ SeenAt(alerts[k]) \in Nat /\ DetectedAt(alerts[k]) \in Nat

VARIABLES
  verb,          \* the verb, its options and its input
  work,          \* where it is, and the objects and the count it has assembled
  file,          \* the objects in the --out file
  ingested,      \* the objects that OpenCTI has
  attempts       \* how often it was run

verbVars == <<verb, work, file, ingested, attempts>>

NoWork == [pc |-> "read", objs |-> <<>>, sightings |-> 0, skipped |-> <<>>]

Inputs(name) ==
  CASE name = "stix-export"    -> Exports
    [] name = "cti-sightings"  -> AlertLists
    [] name = "stix-behaviour" -> Firings

VerbInit ==
  /\ \E name \in {"stix-export", "cti-sightings", "stix-behaviour"}, out, push \in BOOLEAN :
       \E input \in Inputs(name) :
         /\ name = "stix-behaviour" => ~push
         /\ verb = [name |-> name, out |-> out, push |-> push, input |-> input]
  /\ work = NoWork /\ file = <<>> /\ ingested = <<>> /\ attempts = 1

-----------------------------------------------------------------------------
\* What becomes of the objects: nothing to send, not valid, or a bundle to write.
Judged(made, nothing) ==
  [pc |-> IF nothing THEN "nothing" ELSE IF Errors(made.objs) # {} THEN "invalid" ELSE "write",
   objs |-> made.objs, sightings |-> made.sightings, skipped |-> made.skipped]

\* Hits that were all skipped are nothing, unless a bundle is passed through.
RunExport(input) ==
  LET made == Assemble(input.docs, input.bundles)
  IN  Judged(made, input.bundles = <<>> /\ made.sightings = 0)

RunSightings(alerts) ==
  LET made == AlertSightings(alerts) IN Judged(made, made.sightings = 0)

\* A run that joins nothing is a bundle like any other; one without a source is none.
RunBehaviour(input) ==
  Judged(IF NoSource(input.tree, input.paths) THEN NoObjects
         ELSE BehaviourObjects(LoadDetections(input.lanes), CarRows(input.tree, input.paths)),
         NoSource(input.tree, input.paths))

\* run_*: everything up to the first effect.
Assembling ==
  /\ work.pc = "read"
  /\ work' = CASE verb.name = "stix-export"    -> RunExport(verb.input)
               [] verb.name = "cti-sightings"  -> RunSightings(verb.input)
               [] verb.name = "stix-behaviour" -> RunBehaviour(verb.input)
  /\ UNCHANGED <<verb, file, ingested, attempts>>

\* write_bundle, over what the file had.
WriteBundle ==
  /\ work.pc = "write"
  /\ file' = IF verb.out THEN work.objs ELSE file
  /\ work' = [work EXCEPT !.pc = IF verb.push THEN "push" ELSE "ok"]
  /\ UNCHANGED <<verb, ingested, attempts>>

\* What a push comes to: the mutation acknowledged; an empty 200 of a proxy; a refused
\* token or bundle; no answer, before or after the platform has taken the bundle.
Answers == {"acknowledged", "empty", "refused", "unreachable", "lost"}

\* MUTANT of Accepted: any answer without errors is taken for an acknowledgement.
AcceptedOn200(answer) == answer \in {"acknowledged", "empty"}

Accepted(answer) == answer = "acknowledged"

\* The platform ingests by id.
PushBundle ==
  /\ work.pc = "push"
  /\ \E answer \in Answers :
       /\ ingested' = IF answer \in {"acknowledged", "lost"} THEN Over(work.objs, ingested) ELSE ingested
       /\ work' = [work EXCEPT !.pc = IF Accepted(answer) THEN "ok" ELSE "failed"]
  /\ UNCHANGED <<verb, file, attempts>>

\* The operator (external): the verb again, with what there is to read by then.
RunAgain ==
  /\ work.pc \in {"failed", "invalid", "nothing"}
  /\ attempts < MaxAttempts
  /\ attempts' = attempts + 1
  /\ \E input \in Inputs(verb.name) : verb' = [verb EXCEPT !.input = input]
  /\ work' = NoWork
  /\ UNCHANGED <<file, ingested>>

VerbNext == Assembling \/ WriteBundle \/ PushBundle \/ RunAgain

=============================================================================
