--------------------------- MODULE NativeArtifacts ---------------------------
(* Native addons of a release (scripts/fleet/npm/native/build.mts,            *)
(* native-artifacts.mts, native-artifact-files.mts, registry/napi-matrix.mts):*)
(* a build run produces one artifact per target of the matrix; the publish    *)
(* run finds the build of its source, writes down which artifacts it uses     *)
(* (the receipt) and places their files where the packages are packed; the    *)
(* scan run finds the same artifacts again through the publish run's receipt. *)
EXTENDS Naturals, Sequences, FiniteSets

CONSTANTS
  None,
  Targets,      \* the targets of napi.platforms; {} without a napi block
  Commits,      \* commits of the repository
  Heads,        \* those that were heads of the default branch
  Parents(_),   \* the parents of a commit
  MaxBuilds     \* bound: native build runs in a behaviour

ASSUME NativeBounds == MaxBuilds \in Nat /\ Heads \subseteq Commits

\* None stands for no file where one could be placed.
ASSUME NoneIsNoFile == None \notin [target : Targets, build : Nat]

VARIABLES
  builds,   \* native build runs of Actions, in order
  place     \* native-artifacts.mts of the job in progress

nativeVars == <<builds, place>>

\* Where the file of a target goes: the destination template of
\* napi.artifactFiles names the target or is the same for all of them.
Templates == {"perTarget", "fixed"}
Destination(template, target) == IF template = "fixed" THEN "addon" ELSE target
Destinations == Targets \cup {"addon"}

NoFiles == [path \in Destinations |-> None]
IdlePlace == [pc |-> "idle", source |-> None, publishRun |-> 0, receipt |-> None,
              template |-> "perTarget", todo |-> {}, files |-> NoFiles]

NativeInit == builds = << >> /\ place = IdlePlace

-----------------------------------------------------------------------------
(* napi-matrix.mts and native-artifact-files.mts.                             *)
\* resolveRepoNapiMatrix, buildNapiMatrix: one row per recognized target; wasm
\* is a fallback of the loader and never built.
MatrixOf(platforms) == platforms \ {"wasm32-wasi"}

\* Mutant: two artifact files may have one destination.
PlanNeverCollides(template, targets) == FALSE

\* planNativeArtifactFiles refuses two artifact files with one destination.
PlanCollides(template, targets) ==
  \E one, other \in targets :
    one # other /\ Destination(template, one) = Destination(template, other)

-----------------------------------------------------------------------------
(* The native build workflow.                                                 *)
StartBuild(sha) ==
  /\ Len(builds) < MaxBuilds
  /\ builds' = Append(builds, [sha |-> sha, state |-> "running", built |-> {}])
  /\ UNCHANGED place

\* native/build.mts for one target of the matrix: an empty output directory,
\* the producer script, and exactly the configured files in it, none empty.
\* "leftover" is a producer that wrote too much or too little with exit 0.
BuildTarget(run, target, outcome) ==
  /\ run \in DOMAIN builds
  /\ builds[run].state = "running"
  /\ target \in MatrixOf(Targets) \ builds[run].built
  /\ builds' = IF outcome = "complete"
                 THEN [builds EXCEPT ![run].built = @ \cup {target}]
                 ELSE [builds EXCEPT ![run].state = "failure"]
  /\ UNCHANGED place

FinishBuild(run) ==
  /\ run \in DOMAIN builds
  /\ builds[run].state = "running"
  /\ builds[run].built = MatrixOf(Targets)
  /\ builds' = [builds EXCEPT ![run].state = "success"]
  /\ UNCHANGED place

BuildOutcomes == {"complete", "producer fails", "leftover"}

-----------------------------------------------------------------------------
(* native-artifacts.mts.                                                      *)
\* validateNativeBuildRun: a finished, successful native build of that commit.
TrustedBuild(run, sha) ==
  /\ run \in DOMAIN builds
  /\ builds[run].state = "success"
  /\ builds[run].sha = sha

\* validateNativeArtifactSet: one artifact for every row of the matrix.
CompleteSet(artifacts) == artifacts = MatrixOf(Targets)

\* main begins: without a matrix there is nothing to do.
BeginPlacing(source, publishRun) ==
  \E template \in Templates :
    place' = IF MatrixOf(Targets) = {}
               THEN [IdlePlace EXCEPT !.pc = "placed"]
               ELSE [IdlePlace EXCEPT !.pc = "resolve", !.source = source,
                                      !.publishRun = publishRun, !.template = template]

\* resolveNativeReceipt: the receipt of the named publish run, when it was
\* written for this source or for its only parent, or a new one for a
\* successful build of exactly this source.
ReceiptFits(receipt, source) ==
  /\ receipt # None
  /\ \/ receipt.source = source
     \/ Parents(source) = {receipt.source}

CandidateReceipts(named) ==
  IF place.publishRun # 0
    THEN {r \in {named} : ReceiptFits(r, place.source)}
    ELSE {[source |-> place.source, build |-> run, artifacts |-> builds[run].built] :
            run \in {b \in DOMAIN builds : TrustedBuild(b, place.source)}}

FailPlacing == place' = [place EXCEPT !.pc = "failed", !.todo = {}]

ResolveReceipt(named) ==
  /\ place.pc = "resolve"
  /\ \/ /\ CandidateReceipts(named) = {}
        /\ FailPlacing
     \/ \E receipt \in CandidateReceipts(named) :
          IF /\ ~PlanCollides(place.template, MatrixOf(Targets))
             /\ CompleteSet(receipt.artifacts)
             /\ TrustedBuild(receipt.build, receipt.source)
            THEN place' = [place EXCEPT !.pc = "stage", !.receipt = receipt,
                                        !.todo = receipt.artifacts]
            ELSE FailPlacing
  /\ UNCHANGED builds

\* stageNativeArtifact, artifactFiles: an artifact that expired, changed or has
\* other files than planned fails the job, after others were placed.
StageArtifact(target, intact) ==
  /\ place.pc = "stage"
  /\ target \in place.todo
  /\ IF intact /\ target \in builds[place.receipt.build].built
       THEN place' = [place EXCEPT
              !.files[Destination(place.template, target)] =
                 [target |-> target, build |-> place.receipt.build],
              !.todo = @ \ {target}]
       ELSE FailPlacing
  /\ UNCHANGED builds

\* The receipt is written after the last file; with a publish run's receipt the
\* packages are then generated, which may fail.
FinishPlacing(generated) ==
  /\ place.pc = "stage"
  /\ place.todo = {}
  /\ place' = [place EXCEPT !.pc = IF place.publishRun = 0 \/ generated
                                     THEN "placed" ELSE "failed"]
  /\ UNCHANGED builds

-----------------------------------------------------------------------------
NativeBuildStep ==
  \/ \E sha \in Heads : StartBuild(sha)
  \/ \E run \in DOMAIN builds : FinishBuild(run)
  \/ \E run \in DOMAIN builds, target \in Targets, outcome \in BuildOutcomes :
       BuildTarget(run, target, outcome)
=============================================================================
