--------------------------- MODULE Release_proofs ---------------------------
(* Proofs about the release of the package and its record (ReleaseRecord over *)
(* StagedRelease and NativeArtifacts): what is public was scanned, what is    *)
(* staged holds the natives of one build, and the record keeps its promises.  *)
EXTENDS ReleaseRecord, SequenceTheorems, TLAPS

(******************************************************************************)
(* The invariant.  First the types, by component; what a job has read of the  *)
(* pipeline is typed from the step of the job on that reads it.               *)
(******************************************************************************)
NativeFile    == [target : Targets, build : Nat]
Files         == [Destinations -> {None} \cup NativeFile]
Tarball       == [source : Commits, natives : Files, malware : BOOLEAN,
                  env : {"ci", "local"}]
MaybeTarball  == Tarball \cup {NoTarball}
NativeReceipt == [source : Commits, build : Nat, artifacts : SUBSET Targets]
MaybeReceipt  == NativeReceipt \cup {None}
MaybeCommit   == Commits \cup {None}
Build == [sha : Commits, state : {"running", "success", "failure"},
          built : SUBSET Targets]
Place == [pc : {"idle", "resolve", "stage", "placed", "failed"},
          source : MaybeCommit, publishRun : Nat, receipt : MaybeReceipt,
          template : Templates, todo : SUBSET Targets, files : Files]
LogKinds == {"committed", "fetched", "prepared", "branch", "resumed", "reserved"}
Run == [head : Heads, source : MaybeCommit,
        log : SUBSET [kind : LogKinds, sha : MaybeCommit],
        receipt : MaybeReceipt, state : {"running", "success", "failure"}]
Stage == [bytes : Tarball, state : {"staged", "approved", "rejected"}]
Input == [run : Nat, stage : Nat, source : Commits, sha1 : Tarball]
Job == [kind : {"none", "publish", "scan"},
        pc : {"none", "native", "reserve", "check", "pack", "upload",
              "verify", "download", "call", "gate"},
        input : Input \cup {NoTarball}, bytes : MaybeTarball, scansDone : Nat]
Coord == [pc : {"idle", "verified", "scanning", "cleared"}, stage : Nat]
Call == [pc : {"idle", "asked", "done"}, tarball : MaybeTarball,
         expected : MaybeTarball, verdict : {"none", "yes", "no"}]
Scan == [bytes : MaybeTarball, finished : BOOLEAN]

NativeTypes == /\ builds \in Seq(Build) /\ place \in Place
               /\ place.pc = "stage" => place.receipt \in NativeReceipt
CallTypes   == call \in Call /\ scans \in Seq(Scan)
JobTypes ==
  /\ runs \in Seq(Run) /\ job \in Job
  /\ job.kind = "none" => job.pc = "none"
  /\ job.kind = "publish" =>
       /\ runs # << >>
       /\ job.pc \in {"native", "reserve", "check", "pack", "upload"}
       /\ job.pc \in {"check", "pack", "upload"} => runs[CurrentRun].source \in Commits
  /\ job.kind = "scan" =>
       /\ job.pc \in {"verify", "download", "native", "call", "gate"}
       /\ job.input \in Input /\ job.input.stage \in DOMAIN stages
  /\ job.pc \in {"upload", "call"} => job.bytes \in Tarball
StageTypes ==
  /\ stages \in Seq(Stage) /\ public \in MaybeTarball /\ receipts \in Seq(Input)
  /\ coord \in Coord
  /\ coord.pc # "idle" => coord.stage \in DOMAIN stages
TypeInv == NativeTypes /\ CallTypes /\ JobTypes /\ StageTypes

\* Clearance.  A verdict, a receipt and the coordinator's word are each about
\* bytes the service has finished scanning; the call in progress is the one the
\* job or the coordinator waits for, never both.
Cleared(bytes) == bytes = NoTarball \/ ScannedClean(bytes)

CallInv ==
  /\ call.pc = "done" /\ call.verdict = "yes" => Cleared(call.expected)
  /\ job.pc = "gate" => call.pc # "idle" /\ call.expected = job.input.sha1
  /\ coord.pc = "scanning" => /\ call.pc # "idle" /\ job.pc # "gate"
                              /\ call.expected = stages[coord.stage].bytes
ClearInv ==
  /\ \A i \in DOMAIN receipts : Cleared(receipts[i].sha1)
  /\ coord.pc = "cleared" => Cleared(stages[coord.stage].bytes)
  /\ Cleared(public)

\* Natives.  The files placed so far are of the build the receipt names, one per
\* target already staged, and nothing else is placed.
Matrix == MatrixOf(Targets)
PlaceInv ==
  /\ place.pc = "resolve" => place.files = NoFiles
  /\ Matrix # {} /\ place.pc \in {"stage", "placed"} =>
       /\ place.receipt \in NativeReceipt
       /\ TrustedBuild(place.receipt.build, place.receipt.source)
       /\ place.publishRun = 0 => place.receipt.source = place.source
       /\ ~PlanCollides(place.template, Matrix)
       /\ place.todo \subseteq Matrix
       /\ \A target \in Matrix \ place.todo :
            place.files[Destination(place.template, target)]
              = [target |-> target, build |-> place.receipt.build]
       /\ \A path \in Destinations : place.files[path] # None =>
            \E target \in Matrix \ place.todo : path = Destination(place.template, target)
       /\ place.pc = "placed" => place.todo = {}

\* What NativesOfOneBuild says of the bytes of a stage, by the builds of "all".
BuiltIn(bytes, all) ==
  Matrix # {} =>
    \E run \in DOMAIN all :
      /\ all[run].state = "success"
      /\ all[run].sha \in {bytes.source} \cup Parents(bytes.source)
      /\ {bytes.natives[path] : path \in Destinations} \ {None}
           = {[target |-> target, build |-> run] : target \in Matrix}
NativesBuilt(bytes) == BuiltIn(bytes, builds)

\* A publish run places natives for its own head and packs what was placed.
PublishInv ==
  /\ job.kind = "publish" =>
       LET run == runs[CurrentRun] IN
       /\ Matrix # {} /\ job.pc # "upload" =>
            /\ place.publishRun = 0 /\ place.source = run.head
            /\ job.pc # "native" => place.pc = "placed"
       /\ job.pc \in {"check", "pack", "upload"} =>
            run.head \in {run.source} \cup Parents(run.source)
  /\ job.pc = "upload" => NativesBuilt(job.bytes)

\* The record.  A package that was public when the command began is still to be
\* checked, and ends the command then; recording precedes rejecting.
RecordTypes ==
  /\ member \in [Members -> {"absent", "staged", "accepted", "public", "rejected"}]
  /\ direct \in [pc : {"idle", "upload", "live"}, name : Names]
  /\ direct.pc # "idle" => direct.name \in Members
  /\ released \subseteq Members
  /\ ledger \subseteq Names
  /\ record \in [pc : {"idle", "check", "record", "reject"}, names : SUBSET Names,
                 todo : SUBSET Names, recordOnly : BOOLEAN, dryRun : BOOLEAN,
                 publicBefore : SUBSET Names, commands : Nat]
RecordInv ==
  /\ record.pc = "check" =>
       \A name \in record.publicBefore : name \in record.todo /\ IsPublic(name)
  /\ record.pc \in {"record", "reject"} => record.publicBefore = {}
  /\ record.pc = "record" => record.names \ record.todo \subseteq ledger
  /\ record.pc = "reject" => record.names \subseteq ledger

(* The elements of a sequence, and its indices.                               *)
LEMMA Elements ==
  ASSUME NEW S, NEW s \in Seq(S)
  PROVE  /\ Len(s) \in Nat /\ DOMAIN s = 1..Len(s)
         /\ \A i \in DOMAIN s : s[i] \in S /\ i \in Nat
BY ElementOfSeq, LenProperties

(* A sequence with one element replaced.                                      *)
LEMMA Replacing ==
  ASSUME NEW S, NEW s \in Seq(S), NEW i \in DOMAIN s, NEW e \in S
  PROVE  LET t == [s EXCEPT ![i] = e]
         IN  /\ t \in Seq(S) /\ Len(t) = Len(s) /\ DOMAIN t = DOMAIN s
             /\ \A j \in DOMAIN s : t[j] = IF j = i THEN e ELSE s[j]
BY ExceptSeq, LenProperties

(* A sequence with one element more.                                          *)
LEMMA Appending ==
  ASSUME NEW S, NEW s \in Seq(S), NEW e \in S
  PROVE  LET t == Append(s, e)
         IN  /\ t \in Seq(S) /\ Len(t) = Len(s) + 1 /\ Len(s) \in Nat
             /\ DOMAIN t = DOMAIN s \cup {Len(t)} /\ Len(t) \notin DOMAIN s
             /\ \A j \in DOMAIN s : t[j] = s[j]
             /\ t[Len(t)] = e
<1>1. /\ Append(s, e) \in Seq(S) /\ Len(Append(s, e)) = Len(s) + 1
      /\ \A i \in 1..Len(s) : Append(s, e)[i] = s[i]
      /\ Append(s, e)[Len(s) + 1] = e
  BY AppendProperties
<1>2. /\ Len(s) \in Nat /\ DOMAIN s = 1..Len(s)
      /\ DOMAIN Append(s, e) = 1..Len(Append(s, e))
  BY <1>1, LenProperties
<1>3. QED
  BY <1>1, <1>2

(* The gate and the service keep the types of a call.                         *)
LEMMA CallStepTypes ==
  ASSUME CallTypes, PromiseStep \/ ServiceStep
  PROVE  CallTypes'
<1> USE DEF CallTypes, Call, Scan
<1>1. CASE Create \/ CreateLost
  <2>1. scans' = Append(scans, [bytes |-> call.tarball, finished |-> FALSE])
    BY <1>1 DEF Create, CreateLost, CreateScan
  <2>2. scans' \in Seq(Scan)
    BY <2>1
  <2>3. QED
    BY <1>1, <2>2 DEF Create, CreateLost
<1>2. CASE SayNo \/ SayYes
  BY <1>2 DEF SayNo, SayYes
<1>3. CASE ServiceStep
  <2>1. PICK id \in DOMAIN scans : FinishScan(id)
    BY <1>3 DEF ServiceStep
  <2>2. /\ scans' = [scans EXCEPT ![id] = [scans[id] EXCEPT !.finished = TRUE]]
        /\ UNCHANGED call
    BY <2>1 DEF FinishScan
  <2>3. [scans[id] EXCEPT !.finished = TRUE] \in Scan
    <3>1. scans[id] \in Scan
      BY Elements
    <3>2. QED
      BY <3>1
  <2>4. QED
    BY <2>2, <2>3, Replacing
<1>4. QED
  BY <1>1, <1>2, <1>3 DEF PromiseStep

(* Native builds keep their types.                                            *)
LEMMA BuildStepTypes ==
  ASSUME NativeTypes, NativeBuildStep
  PROVE  NativeTypes'
<1> USE DEF NativeTypes, Build
<1>0. \A run \in DOMAIN builds : builds[run] \in Build
  BY Elements
<1>1. ASSUME NEW sha \in Heads, StartBuild(sha) PROVE NativeTypes'
  <2>1. [sha |-> sha, state |-> "running", built |-> {}] \in Build
    BY NativeBounds
  <2>2. QED
    BY <1>1, <2>1, Appending DEF StartBuild
<1>2. ASSUME NEW run \in DOMAIN builds, FinishBuild(run) PROVE NativeTypes'
  <2>1. /\ builds' = [builds EXCEPT ![run] = [builds[run] EXCEPT !.state = "success"]]
        /\ UNCHANGED place
    BY <1>2 DEF FinishBuild
  <2>2. [builds[run] EXCEPT !.state = "success"] \in Build
    BY <1>0
  <2>3. QED
    BY <2>1, <2>2, Replacing
<1>3. ASSUME NEW run \in DOMAIN builds, NEW target \in Targets,
             NEW outcome \in BuildOutcomes, BuildTarget(run, target, outcome)
      PROVE  NativeTypes'
  <2>1. /\ UNCHANGED place
        /\ \/ builds' = [builds EXCEPT ![run] = [builds[run] EXCEPT !.built = @ \cup {target}]]
           \/ builds' = [builds EXCEPT ![run] = [builds[run] EXCEPT !.state = "failure"]]
    BY <1>3 DEF BuildTarget
  <2>2. /\ [builds[run] EXCEPT !.built = @ \cup {target}] \in Build
        /\ [builds[run] EXCEPT !.state = "failure"] \in Build
    BY <1>0
  <2>3. ASSUME NEW b \in Build, builds' = [builds EXCEPT ![run] = b]
        PROVE  NativeTypes'
    BY <2>1, <2>3, Replacing
  <2>4. QED
    BY <2>1, <2>2, <2>3
<1>4. QED
  BY <1>1, <1>2, <1>3 DEF NativeBuildStep

(* Placing that has not begun is typed.                                       *)
LEMMA IdlePlaceTyped == IdlePlace \in Place /\ NoFiles \in Files
  BY DEF IdlePlace, Place, NoFiles, Files, MaybeReceipt, MaybeCommit, Templates

(* So is placing that begins (main of native-artifacts.mts).                  *)
LEMMA BeginPlacingTyped ==
  ASSUME NEW source \in Commits, NEW run \in Nat, BeginPlacing(source, run)
  PROVE  place' \in Place
  BY IdlePlaceTyped DEF BeginPlacing, Place, IdlePlace, MaybeCommit, MaybeReceipt

(* Every file has a place to go to.                                           *)
LEMMA DestinationTyped ==
  ASSUME NEW template, NEW target \in Targets
  PROVE  Destination(template, target) \in Destinations
  BY DEF Destination, Destinations

(* A step of native-artifacts.mts keeps the types.                            *)
LEMMA NativeStepTypes ==
  ASSUME NativeTypes, JobTypes, NativeStep
  PROVE  NativeTypes'
<1> USE DEF NativeTypes, Place
<1>1. ASSUME ResolveReceipt(ReceiptOfRun(place.publishRun)) PROVE NativeTypes'
  <2>1. CASE FailPlacing
    BY <1>1, <2>1 DEF ResolveReceipt, FailPlacing
  <2>2. CASE ~FailPlacing
    <3>1. PICK receipt \in CandidateReceipts(ReceiptOfRun(place.publishRun)) :
            /\ CompleteSet(receipt.artifacts)
            /\ place' = [place EXCEPT !.pc = "stage", !.receipt = receipt,
                                      !.todo = receipt.artifacts]
      BY <1>1, <2>2 DEF ResolveReceipt
    <3>2. receipt \in NativeReceipt
      <4>1. CASE place.publishRun # 0
        <5>1. /\ receipt = ReceiptOfRun(place.publishRun) /\ receipt # None
          BY <3>1, <4>1 DEF CandidateReceipts, ReceiptFits
        <5>2. \A run \in DOMAIN runs : runs[run].receipt \in MaybeReceipt
          <6>1. \A run \in DOMAIN runs : runs[run] \in Run
            BY Elements DEF JobTypes
          <6>2. QED
            BY <6>1 DEF Run
        <5>3. QED
          BY <5>1, <5>2 DEF ReceiptOfRun, MaybeReceipt
      <4>2. CASE place.publishRun = 0
        <5>1. PICK run \in DOMAIN builds :
                /\ TrustedBuild(run, place.source)
                /\ receipt = [source |-> place.source, build |-> run,
                              artifacts |-> builds[run].built]
          BY <3>1, <4>2 DEF CandidateReceipts
        <5>2. builds[run] \in Build /\ run \in Nat
          BY <5>1, Elements
        <5>3. QED
          BY <5>1, <5>2 DEF TrustedBuild, Build, NativeReceipt
      <4>3. QED
        BY <4>1, <4>2
    <3>3. receipt.artifacts \subseteq Targets
      BY <3>2 DEF NativeReceipt
    <3>4. QED
      BY <1>1, <3>1, <3>2, <3>3 DEF ResolveReceipt, MaybeReceipt
  <2>3. QED
    BY <2>1, <2>2
<1>2. ASSUME NEW target \in Targets, NEW intact \in BOOLEAN, StageArtifact(target, intact)
      PROVE  NativeTypes'
  <2>1. CASE FailPlacing
    BY <1>2, <2>1 DEF StageArtifact, FailPlacing
  <2>2. CASE ~FailPlacing
    <3>1. /\ target \in builds[place.receipt.build].built
          /\ place' = [place EXCEPT
               !.files[Destination(place.template, target)] =
                  [target |-> target, build |-> place.receipt.build],
               !.todo = @ \ {target}]
      BY <1>2, <2>2 DEF StageArtifact
    <3>2. place.receipt.build \in Nat
      BY <1>2 DEF StageArtifact, NativeReceipt
    <3>3. Destination(place.template, target) \in Destinations
      BY DestinationTyped
    <3>4. QED
      BY <1>2, <3>1, <3>2, <3>3 DEF StageArtifact, Files, NativeFile
  <2>3. QED
    BY <2>1, <2>2
<1>3. ASSUME NEW generated \in BOOLEAN, FinishPlacing(generated) PROVE NativeTypes'
  BY <1>3 DEF FinishPlacing
<1>4. QED
  BY <1>1, <1>2, <1>3 DEF NativeStep

(* A job that ends leaves a typed job.                                        *)
LEMMA JobEndsTyped ==
  ASSUME JobTypes, JobEnds, runs' \in Seq(Run)
  PROVE  JobTypes'
<1>1. job' = [kind |-> "none", pc |-> "none", input |-> NoTarball, bytes |-> NoTarball,
              scansDone |-> job.scansDone]
  BY DEF JobEnds, NoJob
<1>2. job.scansDone \in Nat
  BY DEF JobTypes, Job
<1>3. QED
  BY <1>1, <1>2 DEF JobTypes, Job, MaybeTarball

(* A publish run that ends keeps the types, and the number of runs.           *)
LEMMA EndPublishTyped ==
  ASSUME JobTypes, job.kind = "publish", NEW c \in {"success", "failure"}, EndPublish(c)
  PROVE  /\ JobTypes' /\ place' = IdlePlace
         /\ Len(runs') = Len(runs) /\ DOMAIN runs' = DOMAIN runs
<1>1. runs \in Seq(Run) /\ CurrentRun \in DOMAIN runs
  BY Elements DEF JobTypes, CurrentRun
<1>2. [runs[CurrentRun] EXCEPT !.state = c] \in Run
  <2>1. runs[CurrentRun] \in Run
    BY <1>1, Elements
  <2>2. QED
    BY <2>1 DEF Run
<1>3. runs' = [runs EXCEPT ![CurrentRun] = [runs[CurrentRun] EXCEPT !.state = c]]
  BY DEF EndPublish
<1>4. QED
  BY <1>1, <1>2, <1>3, Replacing, JobEndsTyped DEF EndPublish

(* Each step of a publish run keeps the types.                                *)
LEMMA PublishStepTypes ==
  ASSUME TypeInv,
         \/ \E head \in Heads : StartPublish(head)
         \/ RetainReceipt
         \/ \E kind \in {"committed", "prepared", "resumed"} : ReserveSource(kind)
         \/ CheckPublished \/ PackRelease
         \/ \E outcome \in UploadOutcomes : UploadStage(outcome)
  PROVE  TypeInv'
<1> USE DEF TypeInv
<1>0. /\ runs \in Seq(Run) /\ Len(runs) \in Nat /\ DOMAIN runs = 1..Len(runs)
      /\ \A run \in DOMAIN runs : runs[run] \in Run
      /\ job \in Job /\ place \in Place
  BY Elements DEF JobTypes, NativeTypes
<1>1. ASSUME NEW head \in Heads, StartPublish(head) PROVE TypeInv'
  <2>1. [head |-> head, source |-> None, log |-> {}, receipt |-> None,
         state |-> "running"] \in Run
    BY DEF Run, MaybeCommit, MaybeReceipt
  <2>2. /\ runs' \in Seq(Run) /\ runs' # << >>
    BY <1>0, <1>1, <2>1, Appending DEF StartPublish
  <2>3. JobTypes'
    BY <1>0, <1>1, <2>2 DEF StartPublish, JobTypes, Job
  <2>4. NativeTypes'
    <3>1. place' \in Place
      BY <1>1, NativeBounds, BeginPlacingTyped DEF StartPublish
    <3>2. place'.pc # "stage"
      BY <1>1 DEF StartPublish, BeginPlacing, IdlePlace
    <3>3. QED
      BY <1>1, <3>1, <3>2 DEF StartPublish, NativeTypes
  <2>5. CallTypes' /\ StageTypes'
    BY <1>1 DEF StartPublish, CallTypes, StageTypes
  <2>6. QED
    BY <2>3, <2>4, <2>5
<1>2. ASSUME RetainReceipt PROVE TypeInv'
  <2>1. CallTypes' /\ StageTypes' /\ UNCHANGED builds
    BY <1>2 DEF RetainReceipt, CallTypes, StageTypes
  <2>2. CASE place.pc = "placed"
    <3>1. CurrentRun \in DOMAIN runs
      BY <1>0, <1>2 DEF RetainReceipt, JobTypes, CurrentRun
    <3>2. [runs[CurrentRun] EXCEPT !.receipt = place.receipt] \in Run
      <4>1. runs[CurrentRun] \in Run /\ place.receipt \in MaybeReceipt
        BY <1>0, <3>1 DEF Place
      <4>2. QED
        BY <4>1 DEF Run
    <3>3. runs' = [runs EXCEPT ![CurrentRun] =
                     [runs[CurrentRun] EXCEPT !.receipt = place.receipt]]
      BY <1>2, <2>2 DEF RetainReceipt
    <3>4. runs' \in Seq(Run) /\ runs' # << >>
      BY <1>0, <3>1, <3>2, <3>3, Replacing
    <3>5. JobTypes' /\ UNCHANGED place
      BY <1>0, <1>2, <2>2, <3>4 DEF RetainReceipt, JobTypes, Job
    <3>6. QED
      BY <2>1, <3>5 DEF NativeTypes
  <2>3. CASE place.pc # "placed"
    <3>1. JobTypes' /\ place' = IdlePlace
      BY <1>2, <2>3, EndPublishTyped DEF RetainReceipt
    <3>2. QED
      BY <2>1, <3>1, IdlePlaceTyped DEF NativeTypes, IdlePlace
  <2>4. QED
    BY <2>2, <2>3
<1>3. ASSUME NEW kind \in {"committed", "prepared", "resumed"}, ReserveSource(kind)
      PROVE  TypeInv'
  <2> DEFINE source == IF kind = "committed" THEN BumpOf(runs[CurrentRun].head)
                                             ELSE runs[CurrentRun].head
             run == [runs[CurrentRun] EXCEPT !.source = source,
                                             !.log = LogOf(kind, source)]
  <2>1. /\ CurrentRun \in DOMAIN runs /\ source # None
        /\ runs' = [runs EXCEPT ![CurrentRun] = run]
    <3>1. CurrentRun \in DOMAIN runs
      BY <1>0, <1>3 DEF ReserveSource, JobTypes, CurrentRun
    <3>2. source # None
      BY <1>3 DEF ReserveSource
    <3>3. runs' = [runs EXCEPT ![CurrentRun].source = source,
                               ![CurrentRun].log = LogOf(kind, source)]
      BY <1>3 DEF ReserveSource
    <3>4. QED
      BY <1>0, <3>1, <3>2, <3>3
  <2>2. source \in Commits
    <3>1. runs[CurrentRun].head \in Heads
      BY <1>0, <2>1 DEF Run
    <3>2. QED
      BY <2>1, <3>1, BumpAssumption, NativeBounds
  <2>3. LogOf(kind, source) \in SUBSET [kind : LogKinds, sha : MaybeCommit]
    <3>1. source \in MaybeCommit /\ None \in MaybeCommit
      BY <2>2 DEF MaybeCommit
    <3> HIDE DEF source
    <3>2. CASE kind = "committed"
      <4>1. LogOf(kind, source) =
              {[kind |-> "committed", sha |-> source], [kind |-> "fetched", sha |-> source]}
        BY <3>2 DEF LogOf
      <4>2. QED
        BY <3>1, <4>1 DEF LogKinds
    <3>3. CASE kind = "prepared"
      <4>1. LogOf(kind, source) =
              {[kind |-> "prepared", sha |-> None], [kind |-> "branch", sha |-> source]}
        BY <3>3 DEF LogOf
      <4>2. QED
        BY <3>1, <4>1 DEF LogKinds
    <3>4. CASE kind = "resumed"
      <4>1. LogOf(kind, source) =
              {[kind |-> "resumed", sha |-> source], [kind |-> "reserved", sha |-> source]}
        BY <3>4 DEF LogOf
      <4>2. QED
        BY <3>1, <4>1 DEF LogKinds
    <3>5. QED
      BY <3>2, <3>3, <3>4
  <2>4. run \in Run /\ run.source = source
    <3>1. runs[CurrentRun] \in Run
      BY <1>0, <2>1
    <3> HIDE DEF source
    <3>2. QED
      BY <2>2, <2>3, <3>1 DEF Run, MaybeCommit
  <2> HIDE DEF run
  <2>5. /\ runs' \in Seq(Run) /\ runs' # << >> /\ Len(runs') = Len(runs)
        /\ runs'[CurrentRun] = run
    BY <1>0, <2>1, <2>4, Replacing
  <2> HIDE DEF source
  <2>6. JobTypes'
    BY <1>0, <1>3, <2>2, <2>4, <2>5 DEF ReserveSource, JobTypes, Job, CurrentRun
  <2>7. QED
    BY <1>3, <2>6 DEF ReserveSource, nativeVars, NativeTypes, CallTypes, StageTypes
<1>4. ASSUME CheckPublished PROVE TypeInv'
  <2>1. CallTypes' /\ StageTypes' /\ UNCHANGED builds
    BY <1>4 DEF CheckPublished, CallTypes, StageTypes
  <2>2. CASE public # NoTarball
    <3>1. JobTypes' /\ place' = IdlePlace
      BY <1>4, <2>2, EndPublishTyped DEF CheckPublished
    <3>2. QED
      BY <2>1, <3>1, IdlePlaceTyped DEF NativeTypes, IdlePlace
  <2>3. CASE public = NoTarball
    <3>1. JobTypes' /\ UNCHANGED place
      BY <1>0, <1>4, <2>3 DEF CheckPublished, JobTypes, Job, CurrentRun
    <3>2. QED
      BY <2>1, <3>1 DEF NativeTypes
  <2>4. QED
    BY <2>2, <2>3
<1>5. ASSUME PackRelease PROVE TypeInv'
  <2>1. CallTypes' /\ StageTypes' /\ UNCHANGED builds
    BY <1>5 DEF PackRelease, CallTypes, StageTypes
  <2>2. CASE EndPublish("failure")
    <3>1. JobTypes' /\ place' = IdlePlace
      BY <1>5, <2>2, EndPublishTyped DEF PackRelease
    <3>2. QED
      BY <2>1, <3>1, IdlePlaceTyped DEF NativeTypes, IdlePlace
  <2>3. CASE ~EndPublish("failure")
    <3>1. PICK bytes \in Packs(runs[CurrentRun].source) :
            job' = [job EXCEPT !.pc = "upload", !.bytes = bytes]
      BY <1>5, <2>3 DEF PackRelease
    <3>2. bytes \in Tarball
      <4>1. runs[CurrentRun].source \in Commits
        BY <1>5 DEF PackRelease, JobTypes
      <4>2. place.files \in Files
        BY <1>0 DEF Place
      <4>3. QED
        BY <3>1, <4>1, <4>2 DEF Packs, Tarball
    <3>3. JobTypes' /\ UNCHANGED place
      BY <1>0, <1>5, <2>3, <3>1, <3>2
      DEF PackRelease, JobTypes, Job, CurrentRun, MaybeTarball
    <3>4. QED
      BY <2>1, <3>3 DEF NativeTypes
  <2>4. QED
    BY <2>2, <2>3
<1>6. ASSUME NEW outcome \in UploadOutcomes, UploadStage(outcome) PROVE TypeInv'
  <2>1. JobTypes' /\ place' = IdlePlace
    BY <1>6, EndPublishTyped DEF UploadStage
  <2>2. stages' \in Seq(Stage) /\ DOMAIN stages \subseteq DOMAIN stages'
    <3>1. [bytes |-> job.bytes, state |-> "staged"] \in Stage
      BY <1>6 DEF UploadStage, JobTypes, Stage
    <3>2. QED
      BY <1>6, <3>1, Appending DEF UploadStage, StageTypes
  <2>3. QED
    BY <1>6, <2>1, <2>2, IdlePlaceTyped
    DEF UploadStage, NativeTypes, CallTypes, StageTypes, IdlePlace
<1>7. QED
  BY <1>1, <1>2, <1>3, <1>4, <1>5, <1>6

(* Each step of a scan run keeps the types, and so does a lost runner.        *)
LEMMA ScanStepTypes ==
  ASSUME TypeInv,
         \/ \E input \in ScanInputs : StartScan(input)
         \/ \E head \in Commits : VerifyScanSource(head)
         \/ \E found \in BOOLEAN : DownloadStage(found)
         \/ PackForScan \/ CallScan \/ WriteScanReceipt \/ LoseRunner
  PROVE  TypeInv'
<1> USE DEF TypeInv
<1>0. /\ runs \in Seq(Run) /\ Len(runs) \in Nat /\ DOMAIN runs = 1..Len(runs)
      /\ \A run \in DOMAIN runs : runs[run] \in Run
      /\ \A id \in DOMAIN stages : stages[id] \in Stage /\ id \in Nat
      /\ job \in Job /\ place \in Place
  BY Elements DEF JobTypes, NativeTypes, StageTypes
<1>1. ASSUME NEW input \in ScanInputs, StartScan(input) PROVE TypeInv'
  <2>1. input \in Input /\ input.stage \in DOMAIN stages
    <3>1. \A id \in DOMAIN stages : stages[id].bytes \in Tarball
      BY <1>0 DEF Stage
    <3>2. QED
      BY <1>0, <3>1 DEF ScanInputs, Input
  <2>2. JobTypes'
    <3>1. job' = [kind |-> "scan", pc |-> "verify", input |-> input,
                  bytes |-> job.bytes, scansDone |-> job.scansDone + 1]
      BY <1>0, <1>1 DEF StartScan, Job
    <3>2. job.bytes \in MaybeTarball /\ job.scansDone \in Nat
      BY <1>0 DEF Job
    <3>3. job' \in Job
      BY <2>1, <3>1, <3>2 DEF Job
    <3>4. QED
      BY <1>0, <1>1, <2>1, <3>1, <3>3 DEF StartScan, JobTypes
  <2>3. QED
    BY <1>1, <2>2 DEF StartScan, nativeVars, NativeTypes, CallTypes, StageTypes
<1>2. ASSUME NEW head \in Commits, VerifyScanSource(head) PROVE TypeInv'
  <2>1. CallTypes' /\ StageTypes' /\ UNCHANGED <<builds, runs, stages>>
    BY <1>2 DEF VerifyScanSource, CallTypes, StageTypes
  <2>2. CASE ScanJobFails
    BY <1>0, <2>1, <2>2, JobEndsTyped, IdlePlaceTyped
    DEF ScanJobFails, NativeTypes, IdlePlace
  <2>3. CASE job' = [job EXCEPT !.pc = "download"] /\ UNCHANGED place
    BY <1>0, <1>2, <2>1, <2>3 DEF VerifyScanSource, JobTypes, Job, NativeTypes
  <2>4. QED
    BY <1>2, <2>2, <2>3 DEF VerifyScanSource
<1>3. ASSUME NEW found \in BOOLEAN, DownloadStage(found) PROVE TypeInv'
  <2>1. CallTypes' /\ StageTypes' /\ UNCHANGED <<builds, runs, stages>>
    BY <1>3 DEF DownloadStage, CallTypes, StageTypes
  <2>2. /\ job.kind = "scan" /\ job.input \in Input /\ job.input.stage \in DOMAIN stages
    BY <1>3 DEF DownloadStage, JobTypes
  <2>3. CASE found
    <3>1. stages[job.input.stage].bytes \in Tarball
      BY <1>0, <2>2 DEF Stage
    <3>2. /\ job' = [job EXCEPT !.pc = "call", !.bytes = stages[job.input.stage].bytes]
          /\ UNCHANGED place
      BY <1>3, <2>3 DEF DownloadStage
    <3>3. JobTypes'
      BY <1>0, <2>1, <2>2, <3>1, <3>2 DEF JobTypes, Job, MaybeTarball, CurrentRun
    <3>4. QED
      BY <2>1, <3>2, <3>3 DEF NativeTypes
  <2>4. CASE ~found
    <3>1. /\ job' = [job EXCEPT !.pc = "native"]
          /\ BeginPlacing(job.input.source, job.input.run)
      BY <1>3, <2>4 DEF DownloadStage
    <3>2. place' \in Place /\ place'.pc # "stage"
      BY <2>2, <3>1, BeginPlacingTyped DEF Input, BeginPlacing, IdlePlace
    <3>3. JobTypes'
      BY <1>0, <2>1, <2>2, <3>1 DEF JobTypes, Job
    <3>4. QED
      BY <2>1, <3>2, <3>3 DEF NativeTypes
  <2>5. QED
    BY <2>3, <2>4
<1>4. ASSUME PackForScan PROVE TypeInv'
  <2>1. CallTypes' /\ StageTypes' /\ UNCHANGED <<builds, runs, stages>>
    BY <1>4 DEF PackForScan, CallTypes, StageTypes
  <2>2. CASE ScanJobFails
    BY <1>0, <2>1, <2>2, JobEndsTyped, IdlePlaceTyped
    DEF ScanJobFails, NativeTypes, IdlePlace
  <2>3. CASE ~ScanJobFails
    <3>1. PICK bytes \in Packs(job.input.source) :
            job' = [job EXCEPT !.pc = "call", !.bytes = bytes] /\ place' = IdlePlace
      BY <1>4, <2>3 DEF PackForScan
    <3>2. bytes \in Tarball
      <4>1. job.input.source \in Commits
        BY <1>4 DEF PackForScan, JobTypes, Input
      <4>2. place.files \in Files
        BY <1>0 DEF Place
      <4>3. QED
        BY <3>1, <4>1, <4>2 DEF Packs, Tarball
    <3>3. JobTypes'
      BY <1>0, <1>4, <2>1, <3>1, <3>2 DEF PackForScan, JobTypes, Job, MaybeTarball
    <3>4. QED
      BY <2>1, <3>1, <3>3, IdlePlaceTyped DEF NativeTypes, IdlePlace
  <2>4. QED
    BY <2>2, <2>3
<1>5. ASSUME CallScan PROVE TypeInv'
  <2>1. NativeTypes' /\ StageTypes'
    BY <1>5 DEF CallScan, nativeVars, NativeTypes, StageTypes
  <2>2. job.bytes \in MaybeTarball /\ job.input.sha1 \in MaybeTarball
    BY <1>0, <1>5 DEF CallScan, JobTypes, Job, Input, MaybeTarball
  <2>3. CallTypes'
    BY <1>5, <2>2 DEF CallScan, Ask, CallTypes, Call
  <2>4. JobTypes'
    BY <1>0, <1>5 DEF CallScan, JobTypes, Job
  <2>5. QED
    BY <2>1, <2>3, <2>4
<1>6. ASSUME WriteScanReceipt PROVE TypeInv'
  <2>1. IdleCall \in Call
    BY DEF IdleCall, Call, MaybeTarball
  <2>2. CallTypes' /\ NativeTypes'
    BY <1>6, <2>1 DEF WriteScanReceipt, CallTypes, nativeVars, NativeTypes
  <2>3. JobTypes'
    BY <1>0, <1>6, JobEndsTyped DEF WriteScanReceipt
  <2>4. receipts' \in Seq(Input)
    <3>1. job.input \in Input
      BY <1>6 DEF WriteScanReceipt, JobTypes
    <3>2. [run |-> job.input.run, stage |-> job.input.stage,
           source |-> job.input.source, sha1 |-> job.input.sha1] \in Input
      BY <3>1 DEF Input
    <3>3. receipts \in Seq(Input)
      BY DEF StageTypes
    <3>4. QED
      BY <1>6, <3>2, <3>3, Appending DEF WriteScanReceipt
  <2>5. QED
    BY <1>6, <2>2, <2>3, <2>4 DEF WriteScanReceipt, StageTypes
<1>7. ASSUME LoseRunner PROVE TypeInv'
  <2>1. IdleCall \in Call
    BY DEF IdleCall, Call, MaybeTarball
  <2>2. CallTypes' /\ NativeTypes' /\ StageTypes'
    BY <1>7, <2>1, IdlePlaceTyped
    DEF LoseRunner, CallTypes, NativeTypes, StageTypes, IdlePlace
  <2>3. runs' \in Seq(Run)
    <3>1. CASE job.kind = "publish"
      <4>1. CurrentRun \in DOMAIN runs
        BY <1>0, <3>1 DEF JobTypes, CurrentRun
      <4>2. [runs[CurrentRun] EXCEPT !.state = "failure"] \in Run
        <5>1. runs[CurrentRun] \in Run
          BY <1>0, <4>1
        <5>2. QED
          BY <5>1 DEF Run
      <4>3. runs' = [runs EXCEPT ![CurrentRun] =
                       [runs[CurrentRun] EXCEPT !.state = "failure"]]
        BY <1>7, <3>1 DEF LoseRunner
      <4>4. QED
        BY <1>0, <4>1, <4>2, <4>3, Replacing
    <3>2. CASE job.kind # "publish"
      BY <1>0, <1>7, <3>2 DEF LoseRunner
    <3>3. QED
      BY <3>1, <3>2
  <2>4. JobTypes'
    BY <1>7, <2>3, JobEndsTyped DEF LoseRunner
  <2>5. QED
    BY <2>2, <2>4
<1>8. QED
  BY <1>1, <1>2, <1>3, <1>4, <1>5, <1>6, <1>7

(* Each step of the coordinator keeps the types.                              *)
LEMMA CoordStepTypes ==
  ASSUME TypeInv,
         \/ \E stage \in DOMAIN stages, source \in Commits : VerifyStage(stage, source)
         \/ AcceptReceipt
         \/ \E tarball \in OwnTarballs : CallOwnScan(tarball)
         \/ TakeVerdict \/ ApproveStage \/ GiveUpStage
  PROVE  TypeInv'
<1> USE DEF TypeInv
<1>0. /\ stages \in Seq(Stage) /\ coord \in Coord
      /\ \A id \in DOMAIN stages : stages[id] \in Stage /\ id \in Nat
      /\ IdleCall \in Call /\ IdleCoord \in Coord
  BY Elements DEF StageTypes, IdleCall, Call, MaybeTarball, IdleCoord, Coord
<1>1. ASSUME NEW stage \in DOMAIN stages, NEW source \in Commits,
             VerifyStage(stage, source)
      PROVE  TypeInv'
  BY <1>0, <1>1
  DEF VerifyStage, nativeVars, NativeTypes, CallTypes, JobTypes, StageTypes, Coord,
      CurrentRun
<1>2. ASSUME AcceptReceipt \/ GiveUpStage PROVE TypeInv'
  BY <1>0, <1>2 DEF AcceptReceipt, GiveUpStage, nativeVars, NativeTypes, CallTypes,
                    JobTypes, StageTypes, Coord, IdleCoord, CurrentRun
<1>3. ASSUME NEW tarball \in OwnTarballs, CallOwnScan(tarball) PROVE TypeInv'
  <2>1. NativeTypes' /\ JobTypes' /\ StageTypes'
    BY <1>0, <1>3
    DEF CallOwnScan, nativeVars, NativeTypes, JobTypes, StageTypes, Coord,
        CurrentRun
  <2>2. coord.stage \in DOMAIN stages
    BY <1>3 DEF CallOwnScan, StageTypes
  <2>3. stages[coord.stage].bytes \in Tarball
    BY <1>0, <2>2 DEF Stage
  <2>4. tarball \in MaybeTarball
    BY <2>3 DEF OwnTarballs, MaybeTarball, Tarball
  <2>5. CallTypes'
    BY <1>3, <2>3, <2>4 DEF CallOwnScan, Ask, CallTypes, Call, MaybeTarball
  <2>6. QED
    BY <2>1, <2>5
<1>4. ASSUME TakeVerdict PROVE TypeInv'
  BY <1>0, <1>4 DEF TakeVerdict, nativeVars, NativeTypes, CallTypes, JobTypes,
                    StageTypes, Coord, IdleCoord, CurrentRun
<1>5. ASSUME ApproveStage PROVE TypeInv'
  <2>1. coord.stage \in DOMAIN stages
    BY <1>5 DEF ApproveStage, StageTypes
  <2>2. /\ stages[coord.stage].bytes \in MaybeTarball
        /\ [stages[coord.stage] EXCEPT !.state = "approved"] \in Stage
    BY <1>0, <2>1 DEF Stage, MaybeTarball
  <2>3. /\ public' \in MaybeTarball /\ stages' \in Seq(Stage)
        /\ DOMAIN stages' = DOMAIN stages
    <3>1. CASE UNCHANGED <<public, stages>>
      BY <3>1 DEF StageTypes
    <3>2. CASE /\ public' = stages[coord.stage].bytes
               /\ stages' = [stages EXCEPT ![coord.stage] =
                               [stages[coord.stage] EXCEPT !.state = "approved"]]
      BY <1>0, <2>1, <2>2, <3>2, Replacing
    <3>3. QED
      BY <1>5, <3>1, <3>2 DEF ApproveStage
  <2>4. QED
    BY <1>0, <1>5, <2>3
    DEF ApproveStage, nativeVars, NativeTypes, CallTypes, JobTypes, StageTypes,
        IdleCoord, CurrentRun
<1>6. QED
  BY <1>1, <1>2, <1>3, <1>4, <1>5

(* Every step of a release keeps the types.                                   *)
LEMMA ReleaseTypes ==
  ASSUME TypeInv, ReleaseNext
  PROVE  TypeInv'
<1> USE DEF TypeInv
<1>1. CASE JobStep
  <2>1. CASE NativeStep
    <3>1. NativeTypes'
      BY <2>1, NativeStepTypes
    <3>2. QED
      BY <2>1, <3>1
      DEF NativeStep, pipelineVars, CallTypes, JobTypes, StageTypes, CurrentRun
  <2>2. CASE job.pc = "gate" /\ PromiseStep /\ UNCHANGED <<nativeVars, pipelineVars>>
    <3>1. CallTypes'
      BY <2>2, CallStepTypes
    <3>2. QED
      BY <2>2, <3>1
      DEF nativeVars, pipelineVars, NativeTypes, JobTypes, StageTypes, CurrentRun
  <2>3. QED
    BY <1>1, <2>1, <2>2, PublishStepTypes, ScanStepTypes DEF JobStep
<1>2. CASE CoordStep
  <2>1. CASE coord.pc = "scanning" /\ PromiseStep /\ UNCHANGED <<nativeVars, pipelineVars>>
    <3>1. CallTypes'
      BY <2>1, CallStepTypes
    <3>2. QED
      BY <2>1, <3>1
      DEF nativeVars, pipelineVars, NativeTypes, JobTypes, StageTypes, CurrentRun
  <2>2. QED
    BY <1>2, <2>1, CoordStepTypes DEF CoordStep
<1>3. CASE NativeBuildStep /\ UNCHANGED <<pipelineVars, call, scans>>
  <2>1. NativeTypes'
    BY <1>3, BuildStepTypes
  <2>2. QED
    BY <1>3, <2>1 DEF pipelineVars, CallTypes, JobTypes, StageTypes, CurrentRun
<1>4. CASE ServiceStep /\ UNCHANGED <<pipelineVars, nativeVars>>
  <2>1. CallTypes'
    BY <1>4, CallStepTypes
  <2>2. QED
    BY <1>4, <2>1
    DEF nativeVars, pipelineVars, NativeTypes, JobTypes, StageTypes, CurrentRun
<1>5. CASE \/ \E head \in Heads : StartPublish(head)
           \/ \E input \in ScanInputs : StartScan(input)
           \/ LoseRunner
  BY <1>5, PublishStepTypes, ScanStepTypes
<1>6. QED
  BY <1>1, <1>2, <1>3, <1>4, <1>5 DEF ReleaseNext

(* Stages that are rejected keep the types, and their bytes.                  *)
LEMMA RejectTypes ==
  ASSUME TypeInv, Rejecting
  PROVE  /\ TypeInv' /\ DOMAIN stages' = DOMAIN stages
         /\ \A id \in DOMAIN stages : stages'[id].bytes = stages[id].bytes
         /\ UNCHANGED <<call, scans, builds, place, runs, job, public, receipts, coord>>
<1>1. PICK name \in Names, refused \in SUBSET DOMAIN stages : RejectStages(name, refused)
  BY DEF Rejecting
<1>2. UNCHANGED <<call, scans, builds, place, runs, job, public, receipts, coord>>
  BY <1>1 DEF RejectStages
<1>3. /\ stages \in Seq(Stage) /\ Len(stages) \in Nat /\ DOMAIN stages = 1..Len(stages)
      /\ \A id \in DOMAIN stages : stages[id] \in Stage
  BY Elements DEF TypeInv, StageTypes
<1>4. /\ stages' \in [DOMAIN stages -> Stage]
      /\ \A id \in DOMAIN stages : stages'[id].bytes = stages[id].bytes
  <2>1. CASE UNCHANGED stages
    BY <1>3, <2>1
  <2>2. CASE stages' = [id \in DOMAIN stages |->
                          IF stages[id].state = "staged" /\ id \notin refused
                            THEN [stages[id] EXCEPT !.state = "rejected"]
                            ELSE stages[id]]
    <3>1. \A id \in DOMAIN stages :
            /\ [stages[id] EXCEPT !.state = "rejected"] \in Stage
            /\ [stages[id] EXCEPT !.state = "rejected"].bytes = stages[id].bytes
      BY <1>3 DEF Stage
    <3>2. QED
      BY <1>3, <2>2, <3>1
  <2>3. QED
    BY <1>1, <2>1, <2>2 DEF RejectStages
<1>5. stages' \in Seq(Stage) /\ DOMAIN stages' = DOMAIN stages
  BY <1>3, <1>4, SeqDef
<1>6. QED
  BY <1>2, <1>4, <1>5
  DEF TypeInv, NativeTypes, CallTypes, JobTypes, StageTypes, CurrentRun

(* The types are kept by every step ...                                       *)
LEMMA TypeStep ==
  ASSUME TypeInv, [Next]_vars
  PROVE  TypeInv'
<1>1. CASE UNCHANGED releaseVars
  BY <1>1 DEF releaseVars, TypeInv, NativeTypes, CallTypes, JobTypes, StageTypes,
              CurrentRun
<1>2. QED
  BY <1>1, ReleaseTypes, RejectTypes DEF Next, vars

(* ... and hold at first.                                                     *)
LEMMA TypeInit == Init => TypeInv
<1> SUFFICES ASSUME Init PROVE TypeInv
  OBVIOUS
<1>1. CallTypes
  BY DEF Init, ReleaseInit, PromiseInit, CallTypes, IdleCall, Call, MaybeTarball
<1>2. NativeTypes
  BY IdlePlaceTyped DEF Init, ReleaseInit, NativeInit, NativeTypes, IdlePlace
<1>3. JobTypes
  BY DEF Init, ReleaseInit, JobTypes, Job, NoJob, MaybeTarball
<1>4. StageTypes
  BY DEF Init, ReleaseInit, StageTypes, Coord, IdleCoord, MaybeTarball
<1>5. QED
  BY <1>1, <1>2, <1>3, <1>4 DEF TypeInv

(******************************************************************************)
(* Evidence.  What the service has finished stays finished.                   *)
(******************************************************************************)
ScansGrow ==
  \A id \in DOMAIN scans :
    /\ id \in DOMAIN scans'
    /\ scans'[id].bytes = scans[id].bytes
    /\ scans[id].finished => scans'[id].finished

(* The service forgets no scan.                                               *)
LEMMA GateScansGrow ==
  ASSUME CallTypes, PromiseStep \/ ServiceStep
  PROVE  ScansGrow
<1>1. scans \in Seq(Scan)
  BY DEF CallTypes
<1>2. CASE Create \/ CreateLost
  <2>1. /\ scans' = Append(scans, [bytes |-> call.tarball, finished |-> FALSE])
        /\ [bytes |-> call.tarball, finished |-> FALSE] \in Scan
    BY <1>2 DEF Create, CreateLost, CreateScan, CallTypes, Call, Scan
  <2>2. QED
    BY <1>1, <2>1, Appending DEF ScansGrow
<1>3. CASE ServiceStep
  <2>1. PICK id \in DOMAIN scans : FinishScan(id)
    BY <1>3 DEF ServiceStep
  <2>2. scans' = [scans EXCEPT ![id] = [scans[id] EXCEPT !.finished = TRUE]]
    BY <2>1 DEF FinishScan
  <2>3. /\ [scans[id] EXCEPT !.finished = TRUE] \in Scan
        /\ [scans[id] EXCEPT !.finished = TRUE].bytes = scans[id].bytes
        /\ [scans[id] EXCEPT !.finished = TRUE].finished
    <3>1. scans[id] \in Scan
      BY <1>1, Elements
    <3>2. QED
      BY <3>1 DEF Scan
  <2>4. QED
    BY <1>1, <2>2, <2>3, Replacing DEF ScansGrow
<1>4. CASE UNCHANGED scans
  BY <1>4 DEF ScansGrow
<1>5. QED
  BY <1>2, <1>3, <1>4 DEF PromiseStep, SayNo, SayYes

(* Bytes that are cleared stay cleared.                                       *)
LEMMA ClearedStays ==
  ASSUME NEW bytes, Cleared(bytes), ScansGrow
  PROVE  Cleared(bytes)'
  BY DEF Cleared, ScannedClean, ScansGrow

\* A stage keeps its bytes, whatever becomes of its state.
StagesKept ==
  \A id \in DOMAIN stages :
    id \in DOMAIN stages' /\ stages'[id].bytes = stages[id].bytes

(* A step that leaves the call, the receipts, the coordinator and the bytes   *)
(* of the stages alone.                                                       *)
LEMMA AsideStep ==
  ASSUME TypeInv, CallInv, ClearInv, StagesKept,
         UNCHANGED <<call, scans, receipts, coord, public>>,
         job'.pc = "gate" => job.pc = "gate" /\ job'.input = job.input
  PROVE  CallInv' /\ ClearInv'
<1>1. ScansGrow
  BY DEF ScansGrow
<1>2. coord.pc # "idle" => coord.stage \in DOMAIN stages
  BY DEF TypeInv, StageTypes
<1>3. CallInv'
  <2>1. call.pc = "done" /\ call.verdict = "yes" => Cleared(call.expected)'
    BY <1>1, ClearedStays DEF CallInv
  <2>2. QED
    BY <1>2, <2>1 DEF CallInv, StagesKept, Cleared, ScannedClean
<1>4. ClearInv'
  BY <1>2 DEF ClearInv, StagesKept, Cleared, ScannedClean
<1>5. QED
  BY <1>3, <1>4

(* The steps of a publish run.                                                *)
LEMMA PublishAside ==
  ASSUME TypeInv, CallInv, ClearInv,
         \/ \E head \in Heads : StartPublish(head)
         \/ NativeStep \/ RetainReceipt
         \/ \E kind \in {"committed", "prepared", "resumed"} : ReserveSource(kind)
         \/ CheckPublished \/ PackRelease
         \/ \E outcome \in UploadOutcomes : UploadStage(outcome)
  PROVE  CallInv' /\ ClearInv'
<1>0. job \in Job
  BY DEF TypeInv, JobTypes
<1>1. StagesKept
  <2>1. CASE \E outcome \in UploadOutcomes : UploadStage(outcome)
    <3>1. stages \in Seq(Stage) /\ [bytes |-> job.bytes, state |-> "staged"] \in Stage
      BY <2>1 DEF UploadStage, TypeInv, StageTypes, JobTypes, Stage
    <3>2. \/ stages' = stages
          \/ stages' = Append(stages, [bytes |-> job.bytes, state |-> "staged"])
      BY <2>1 DEF UploadStage
    <3>3. QED
      BY <3>1, <3>2, Appending DEF StagesKept
  <2>2. CASE UNCHANGED stages
    BY <2>2 DEF StagesKept
  <2>3. QED
    BY <2>1, <2>2
    DEF StartPublish, NativeStep, pipelineVars, RetainReceipt, ReserveSource,
        CheckPublished, PackRelease
<1>2. UNCHANGED <<call, scans, receipts, coord, public>>
  BY DEF StartPublish, NativeStep, pipelineVars, RetainReceipt, ReserveSource,
         CheckPublished, PackRelease, UploadStage
<1>3. job'.pc = "gate" => job.pc = "gate" /\ job'.input = job.input
  BY <1>0 DEF StartPublish, NativeStep, pipelineVars, RetainReceipt, ReserveSource,
         CheckPublished, PackRelease, UploadStage, EndPublish, JobEnds, NoJob, Job
<1>4. QED
  BY <1>1, <1>2, <1>3, AsideStep

(* The steps of a scan run that has not asked the gate.                       *)
LEMMA ScanAside ==
  ASSUME TypeInv, CallInv, ClearInv,
         \/ \E input \in ScanInputs : StartScan(input)
         \/ \E head \in Commits : VerifyScanSource(head)
         \/ \E found \in BOOLEAN : DownloadStage(found)
         \/ PackForScan
  PROVE  CallInv' /\ ClearInv'
<1>0. job \in Job
  BY DEF TypeInv, JobTypes
<1>1. UNCHANGED <<call, scans, receipts, coord, public, stages>>
  BY DEF StartScan, VerifyScanSource, DownloadStage, PackForScan
<1>2. job'.pc # "gate"
  BY <1>0 DEF StartScan, VerifyScanSource, DownloadStage, PackForScan, ScanJobFails,
              JobEnds, NoJob, Job
<1>3. QED
  BY <1>1, <1>2, AsideStep DEF StagesKept

(* The gate works for the scan run or for the coordinator.                    *)
LEMMA GateStep ==
  ASSUME TypeInv, CallInv, ClearInv, UNCHANGED pipelineVars,
         \/ ServiceStep
         \/ PromiseStep /\ (job.pc = "gate" \/ coord.pc = "scanning")
  PROVE  CallInv' /\ ClearInv'
<1>0. call \in Call
  BY DEF TypeInv, CallTypes
<1>1. ScansGrow /\ UNCHANGED <<job, stages, public, receipts, coord>>
  BY GateScansGrow DEF TypeInv, pipelineVars
<1>2. /\ call'.expected = call.expected
      /\ call.pc # "idle" => call'.pc # "idle"
  BY <1>0 DEF ServiceStep, FinishScan, PromiseStep, Create, CreateLost, SayNo,
              SayYes, Call
<1>3. ASSUME NEW bytes, Cleared(bytes) PROVE Cleared(bytes)'
  BY <1>1, <1>3, ClearedStays
<1>4. call'.pc = "done" /\ call'.verdict = "yes" => Cleared(call.expected)'
  <2>1. CASE SayYes
    <3>1. Cleared(call.expected)
      BY <2>1 DEF SayYes, Bound, Cleared
    <3>2. QED
      BY <1>2, <1>3, <3>1 DEF Cleared, ScannedClean
  <2>2. CASE ~SayYes
    <3>1. call'.pc = "done" /\ call'.verdict = "yes"
            => call.pc = "done" /\ call.verdict = "yes"
      BY <1>0, <2>2 DEF ServiceStep, FinishScan, PromiseStep, Create, CreateLost,
                        SayNo, Call
    <3>2. QED
      BY <1>2, <1>3, <3>1 DEF CallInv, Cleared, ScannedClean
  <2>3. QED
    BY <2>1, <2>2
<1>5. CallInv'
  BY <1>1, <1>2, <1>4 DEF CallInv
<1>6. ClearInv'
  <2>1. (\A i \in DOMAIN receipts : Cleared(receipts[i].sha1))'
    BY <1>1, <1>3 DEF ClearInv, Cleared, ScannedClean
  <2>2. (coord.pc = "cleared" => Cleared(stages[coord.stage].bytes))'
    BY <1>1, <1>3 DEF ClearInv, Cleared, ScannedClean
  <2>3. Cleared(public)'
    BY <1>1, <1>3 DEF ClearInv, Cleared, ScannedClean
  <2>4. QED
    BY <2>1, <2>2, <2>3 DEF ClearInv
<1>7. QED
  BY <1>5, <1>6

(* The scan run asks, takes its answer, or is lost.                           *)
LEMMA ScanRunStep ==
  ASSUME TypeInv, CallInv, ClearInv, CallScan \/ WriteScanReceipt \/ LoseRunner
  PROVE  CallInv' /\ ClearInv'
<1>0. job \in Job /\ UNCHANGED <<scans, stages, public, coord>>
  BY DEF TypeInv, JobTypes, CallScan, WriteScanReceipt, LoseRunner
<1>1. ASSUME NEW bytes, Cleared(bytes) PROVE Cleared(bytes)'
  BY <1>0, <1>1 DEF Cleared, ScannedClean
<1>2. ASSUME CallScan PROVE CallInv' /\ ClearInv'
  <2>1. /\ call.pc = "idle" /\ call'.pc = "asked" /\ call'.expected = job.input.sha1
        /\ job'.pc = "gate" /\ job'.input = job.input
        /\ UNCHANGED receipts
    BY <1>0, <1>2 DEF CallScan, Ask, Job
  <2>2. coord.pc # "scanning"
    BY <2>1 DEF CallInv
  <2>3. CallInv'
    BY <1>0, <2>1, <2>2 DEF CallInv
  <2>4. ClearInv'
    BY <1>0, <2>1 DEF ClearInv, Cleared, ScannedClean
  <2>5. QED
    BY <2>3, <2>4
<1>3. ASSUME WriteScanReceipt PROVE CallInv' /\ ClearInv'
  <2>1. /\ call'.pc = "idle" /\ job.pc = "gate" /\ job'.pc = "none"
    BY <1>3 DEF WriteScanReceipt, JobEnds, NoJob, IdleCall
  <2>2. coord.pc # "scanning"
    BY <2>1 DEF CallInv
  <2>3. CallInv'
    BY <1>0, <2>1, <2>2 DEF CallInv
  <2>4. \A i \in DOMAIN receipts' :
            \/ i \in DOMAIN receipts /\ receipts'[i] = receipts[i]
            \/ call.verdict = "yes" /\ receipts'[i].sha1 = job.input.sha1
    <3>1. CASE call.verdict # "yes"
      <4>1. receipts' = receipts
        BY <1>3, <3>1 DEF WriteScanReceipt
      <4>2. QED
        BY <4>1
    <3>2. CASE call.verdict = "yes"
      <4>1. receipts \in Seq(Input) /\ job.input \in Input
        BY <1>3 DEF WriteScanReceipt, TypeInv, JobTypes, StageTypes
      <4> DEFINE receipt == [run |-> job.input.run, stage |-> job.input.stage,
                             source |-> job.input.source, sha1 |-> job.input.sha1]
      <4>2. receipt \in Input /\ receipt.sha1 = job.input.sha1
        BY <4>1 DEF Input
      <4>3. receipts' = Append(receipts, receipt)
        BY <1>3, <3>2 DEF WriteScanReceipt
      <4> HIDE DEF receipt
      <4>4. /\ DOMAIN receipts' = DOMAIN receipts \cup {Len(receipts')}
            /\ \A i \in DOMAIN receipts : receipts'[i] = receipts[i]
            /\ receipts'[Len(receipts')] = receipt
        BY <4>1, <4>2, <4>3, Appending
      <4>5. QED
        BY <3>2, <4>2, <4>4
    <3>3. QED
      BY <3>1, <3>2
  <2>5. call.verdict = "yes" => Cleared(job.input.sha1)
    BY <1>3, <2>1 DEF WriteScanReceipt, CallInv
  <2>6. \A i \in DOMAIN receipts' : Cleared(receipts'[i].sha1)
    BY <2>4, <2>5 DEF ClearInv
  <2>7. ClearInv'
    BY <1>0, <2>6 DEF ClearInv, Cleared, ScannedClean
  <2>8. QED
    BY <2>3, <2>7
<1>4. ASSUME LoseRunner PROVE CallInv' /\ ClearInv'
  <2>1. /\ job'.pc = "none" /\ UNCHANGED receipts
        /\ call' = IF job.pc = "gate" THEN IdleCall ELSE call
    BY <1>4 DEF LoseRunner, JobEnds, NoJob
  <2>2. ClearInv'
    BY <1>0, <2>1 DEF ClearInv, Cleared, ScannedClean
  <2>3. CASE job.pc = "gate"
    <3>1. coord.pc # "scanning" /\ call'.pc = "idle"
      BY <2>1, <2>3 DEF CallInv, IdleCall
    <3>2. QED
      BY <1>0, <2>1, <2>2, <3>1 DEF CallInv
  <2>4. CASE job.pc # "gate"
    <3>1. UNCHANGED call
      BY <2>1, <2>4
    <3>2. CallInv'
      BY <1>0, <2>1, <3>1 DEF CallInv, Cleared, ScannedClean
    <3>3. QED
      BY <2>2, <3>2
  <2>5. QED
    BY <2>3, <2>4
<1>5. QED
  BY <1>2, <1>3, <1>4

(* The coordinator.  A stage it approves is one it holds cleared.             *)
LEMMA CoordinatorStep ==
  ASSUME TypeInv, CallInv, ClearInv,
         \/ \E stage \in DOMAIN stages, source \in Commits : VerifyStage(stage, source)
         \/ AcceptReceipt
         \/ \E tarball \in OwnTarballs : CallOwnScan(tarball)
         \/ TakeVerdict \/ ApproveStage \/ GiveUpStage
  PROVE  CallInv' /\ ClearInv'
<1>0. /\ coord \in Coord /\ stages \in Seq(Stage)
      /\ UNCHANGED <<scans, job, receipts>>
      /\ coord.pc # "idle" => coord.stage \in DOMAIN stages
  BY DEF TypeInv, StageTypes, VerifyStage, AcceptReceipt, CallOwnScan, TakeVerdict,
         ApproveStage, GiveUpStage
<1>1. ASSUME NEW bytes, Cleared(bytes) PROVE Cleared(bytes)'
  BY <1>0, <1>1 DEF Cleared, ScannedClean
<1>2. CASE \/ \E stage \in DOMAIN stages, source \in Commits : VerifyStage(stage, source)
           \/ GiveUpStage
  <2>1. /\ UNCHANGED <<call, stages, public>>
        /\ coord'.pc \in {"idle", "verified"}
    BY <1>0, <1>2 DEF VerifyStage, GiveUpStage, IdleCoord
  <2>2. QED
    BY <1>0, <2>1 DEF CallInv, ClearInv, Cleared, ScannedClean
<1>3. CASE AcceptReceipt
  <2>1. /\ UNCHANGED <<call, stages, public>>
        /\ coord'.pc = "cleared" /\ coord'.stage = coord.stage
        /\ \E i \in DOMAIN receipts : receipts[i].sha1 = stages[coord.stage].bytes
    BY <1>0, <1>3 DEF AcceptReceipt, Coord
  <2>2. Cleared(stages[coord.stage].bytes)
    BY <2>1 DEF ClearInv
  <2>3. QED
    BY <1>0, <2>1, <2>2 DEF CallInv, ClearInv, Cleared, ScannedClean
<1>4. ASSUME NEW tarball \in OwnTarballs, CallOwnScan(tarball)
      PROVE  CallInv' /\ ClearInv'
  <2>1. /\ UNCHANGED <<stages, public>> /\ call.pc = "idle"
        /\ call'.pc = "asked" /\ call'.expected = stages[coord.stage].bytes
        /\ coord'.pc = "scanning" /\ coord'.stage = coord.stage
    BY <1>0, <1>4 DEF CallOwnScan, Ask, Coord
  <2>2. job.pc # "gate"
    BY <2>1 DEF CallInv
  <2>3. QED
    BY <1>0, <2>1, <2>2 DEF CallInv, ClearInv, Cleared, ScannedClean
<1>5. CASE TakeVerdict
  <2>1. /\ UNCHANGED <<stages, public>> /\ coord.pc = "scanning"
        /\ call.pc = "done" /\ call'.pc = "idle"
        /\ coord'.pc # "scanning"
        /\ coord'.pc = "cleared" => call.verdict = "yes" /\ coord'.stage = coord.stage
    BY <1>0, <1>5 DEF TakeVerdict, Coord, IdleCall, IdleCoord
  <2>2. call.verdict = "yes" => Cleared(stages[coord.stage].bytes)
    BY <2>1 DEF CallInv
  <2>3. job.pc # "gate"
    BY <2>1 DEF CallInv
  <2>4. QED
    BY <1>0, <2>1, <2>2, <2>3 DEF CallInv, ClearInv, Cleared, ScannedClean
<1>6. CASE ApproveStage
  <2>1. /\ UNCHANGED call /\ coord.pc = "cleared" /\ coord'.pc = "idle"
        /\ public' = public \/ public' = stages[coord.stage].bytes
    BY <1>6 DEF ApproveStage, IdleCoord
  <2>2. Cleared(public')
    BY <2>1 DEF ClearInv
  <2>3. QED
    BY <1>0, <2>1, <2>2 DEF CallInv, ClearInv, Cleared, ScannedClean
<1>7. QED
  BY <1>2, <1>3, <1>4, <1>5, <1>6

(* Every step keeps what is cleared.                                          *)
LEMMA ClearStep ==
  ASSUME TypeInv, CallInv, ClearInv, [Next]_vars
  PROVE  CallInv' /\ ClearInv'
<1>1. CASE UNCHANGED releaseVars
  BY <1>1, AsideStep DEF releaseVars, StagesKept
<1>2. CASE Rejecting
  BY <1>2, RejectTypes, AsideStep DEF StagesKept
<1>3. CASE JobStep
  <2>1. CASE job.pc = "gate" /\ PromiseStep /\ UNCHANGED <<nativeVars, pipelineVars>>
    BY <2>1, GateStep
  <2>2. QED
    BY <1>3, <2>1, PublishAside, ScanAside, ScanRunStep DEF JobStep
<1>4. CASE CoordStep
  <2>1. CASE coord.pc = "scanning" /\ PromiseStep /\ UNCHANGED <<nativeVars, pipelineVars>>
    BY <2>1, GateStep
  <2>2. QED
    BY <1>4, <2>1, CoordinatorStep DEF CoordStep
<1>5. CASE NativeBuildStep /\ UNCHANGED <<pipelineVars, call, scans>>
  BY <1>5, AsideStep DEF pipelineVars, StagesKept
<1>6. CASE ServiceStep /\ UNCHANGED <<pipelineVars, nativeVars>>
  BY <1>6, GateStep
<1>7. CASE \/ \E head \in Heads : StartPublish(head)
           \/ \E input \in ScanInputs : StartScan(input)
           \/ LoseRunner
  BY <1>7, PublishAside, ScanAside, ScanRunStep
<1>8. QED
  BY <1>1, <1>2, <1>3, <1>4, <1>5, <1>6, <1>7 DEF Next, ReleaseNext, vars

(* What anyone can install was scanned, and found clean: whatever is typed    *)
(* into the dispatches, however often the version is staged, and whichever    *)
(* run, call or answer is lost, for any number of runs and scans.             *)
THEOREM PublicIsScanned == Spec => []PublicWasScanned
<1>1. Init => CallInv /\ ClearInv
  BY DEF Init, ReleaseInit, PromiseInit, IdleCall, CallInv, ClearInv, NoJob,
         IdleCoord, Cleared
<1>2. ClearInv => PublicWasScanned
  BY DEF ClearInv, Cleared, ScannedClean, PublicWasScanned
<1>3. QED
  BY <1>1, <1>2, TypeInit, TypeStep, ClearStep, PTL DEF Spec

\* Native builds stay as they are once they have succeeded.
BuildsKept ==
  \A run \in DOMAIN builds :
    /\ run \in DOMAIN builds'
    /\ builds[run].state = "success" =>
         builds'[run].state = "success" /\ builds'[run].sha = builds[run].sha

StageInv == \A id \in DOMAIN stages : NativesBuilt(stages[id].bytes)

(* A native build that succeeded is not changed by later ones.                *)
LEMMA BuildsGrow ==
  ASSUME NativeTypes, NativeBuildStep
  PROVE  BuildsKept /\ UNCHANGED place
<1>0. /\ builds \in Seq(Build)
      /\ \A run \in DOMAIN builds : builds[run] \in Build
  BY Elements DEF NativeTypes
<1>1. ASSUME NEW sha \in Heads, StartBuild(sha) PROVE BuildsKept /\ UNCHANGED place
  <2>1. [sha |-> sha, state |-> "running", built |-> {}] \in Build
    BY NativeBounds DEF Build
  <2>2. QED
    BY <1>0, <1>1, <2>1, Appending DEF StartBuild, BuildsKept
<1>2. ASSUME NEW run \in DOMAIN builds, FinishBuild(run)
      PROVE  BuildsKept /\ UNCHANGED place
  <2>1. /\ builds' = [builds EXCEPT ![run] = [builds[run] EXCEPT !.state = "success"]]
        /\ UNCHANGED place /\ builds[run] \in Build
    BY <1>0, <1>2 DEF FinishBuild
  <2>2. /\ [builds[run] EXCEPT !.state = "success"] \in Build
        /\ builds[run].state = "running"
    BY <1>2, <2>1 DEF Build, FinishBuild
  <2>3. QED
    BY <1>0, <2>1, <2>2, Replacing DEF BuildsKept
<1>3. ASSUME NEW run \in DOMAIN builds, NEW target \in Targets,
             NEW outcome \in BuildOutcomes, BuildTarget(run, target, outcome)
      PROVE  BuildsKept /\ UNCHANGED place
  <2>1. /\ UNCHANGED place /\ builds[run].state = "running"
        /\ \/ builds' = [builds EXCEPT ![run] = [builds[run] EXCEPT !.built = @ \cup {target}]]
           \/ builds' = [builds EXCEPT ![run] = [builds[run] EXCEPT !.state = "failure"]]
    BY <1>3 DEF BuildTarget
  <2>2. /\ [builds[run] EXCEPT !.built = @ \cup {target}] \in Build
        /\ [builds[run] EXCEPT !.state = "failure"] \in Build
    BY <1>0 DEF Build
  <2>3. ASSUME NEW b \in Build, builds' = [builds EXCEPT ![run] = b]
        PROVE  BuildsKept
    BY <1>0, <2>1, <2>3, Replacing DEF BuildsKept
  <2>4. QED
    BY <2>1, <2>2, <2>3
<1>4. QED
  BY <1>1, <1>2, <1>3 DEF NativeBuildStep

(* What was built by one build stays so: a build that succeeded is kept.      *)
LEMMA NativesStay ==
  ASSUME BuildsKept
  PROVE  \A bytes : BuiltIn(bytes, builds) => BuiltIn(bytes, builds')
<1> SUFFICES ASSUME NEW bytes, BuiltIn(bytes, builds), Matrix # {}
             PROVE  BuiltIn(bytes, builds')
  BY DEF BuiltIn
<1>1. PICK run \in DOMAIN builds :
        /\ builds[run].state = "success"
        /\ builds[run].sha \in {bytes.source} \cup Parents(bytes.source)
        /\ {bytes.natives[path] : path \in Destinations} \ {None}
             = {[target |-> target, build |-> run] : target \in Matrix}
  BY Zenon DEF BuiltIn
<1>2. /\ run \in DOMAIN builds' /\ builds'[run].state = "success"
      /\ builds'[run].sha = builds[run].sha
  BY <1>1 DEF BuildsKept
<1>3. QED
  BY <1>1, <1>2, Zenon DEF BuiltIn

(* A placed set stays good while builds that succeeded are kept.              *)
LEMMA PlaceStays ==
  ASSUME PlaceInv, BuildsKept, UNCHANGED place
  PROVE  PlaceInv'
BY DEF PlaceInv, BuildsKept, TrustedBuild, Matrix

(* Placing begins with no file placed.                                        *)
LEMMA PlaceBegins ==
  ASSUME NEW source, NEW run, BeginPlacing(source, run) \/ place' = IdlePlace
  PROVE  PlaceInv' /\ (Matrix # {} /\ BeginPlacing(source, run) =>
                         /\ place'.pc = "resolve" /\ place'.source = source
                         /\ place'.publishRun = run)
<1>1. CASE place' = IdlePlace
  <2>1. place'.pc = "idle"
    BY <1>1 DEF IdlePlace
  <2>2. PlaceInv'
    BY <2>1 DEF PlaceInv
  <2>3. ~BeginPlacing(source, run)
    BY <2>1 DEF BeginPlacing, IdlePlace
  <2>4. QED
    BY <2>2, <2>3
<1>2. CASE BeginPlacing(source, run)
  <2>1. CASE Matrix = {}
    <3>1. place'.pc = "placed"
      BY <1>2, <2>1 DEF BeginPlacing, IdlePlace, Matrix
    <3>2. QED
      BY <2>1, <3>1 DEF PlaceInv, Matrix
  <2>2. CASE Matrix # {}
    <3>1. /\ place'.pc = "resolve" /\ place'.source = source
          /\ place'.publishRun = run /\ place'.files = NoFiles
      BY <1>2, <2>2 DEF BeginPlacing, IdlePlace, Matrix
    <3>2. QED
      BY <3>1 DEF PlaceInv
  <2>3. QED
    BY <2>1, <2>2
<1>3. QED
  BY <1>1, <1>2

(* Each step of native-artifacts.mts places files of the one build only.      *)
LEMMA PlaceStep ==
  ASSUME TypeInv, TypeInv', PlaceInv, NativeStep
  PROVE  /\ PlaceInv'
         /\ place'.publishRun = place.publishRun /\ place'.source = place.source
<1>0. /\ place \in Place /\ UNCHANGED builds
      /\ place'.pc = "stage" => place'.receipt \in NativeReceipt
  BY DEF TypeInv, NativeTypes, NativeStep, ResolveReceipt, StageArtifact, FinishPlacing
<1>1. CASE FailPlacing
  <2>1. /\ place'.pc = "failed" /\ place'.publishRun = place.publishRun
        /\ place'.source = place.source
    BY <1>0, <1>1 DEF FailPlacing, Place
  <2>2. QED
    BY <2>1 DEF PlaceInv
<1>2. CASE ResolveReceipt(ReceiptOfRun(place.publishRun)) /\ ~FailPlacing
  <2>1. PICK receipt \in CandidateReceipts(ReceiptOfRun(place.publishRun)) :
          /\ ~PlanCollides(place.template, Matrix)
          /\ receipt.artifacts = Matrix
          /\ TrustedBuild(receipt.build, receipt.source)
          /\ place' = [place EXCEPT !.pc = "stage", !.receipt = receipt,
                                    !.todo = receipt.artifacts]
    BY <1>2 DEF ResolveReceipt, CompleteSet, Matrix
  <2>2. /\ place'.pc = "stage" /\ place'.receipt = receipt /\ place'.todo = Matrix
        /\ place'.files = place.files /\ place'.template = place.template
        /\ place'.publishRun = place.publishRun /\ place'.source = place.source
    BY <1>0, <2>1 DEF Place
  <2>3. place.files = NoFiles
    BY <1>2 DEF ResolveReceipt, PlaceInv
  <2>4. \A path \in Destinations : place'.files[path] = None
    BY <2>2, <2>3 DEF NoFiles
  <2>5. place.publishRun = 0 => receipt.source = place.source
    BY <2>1 DEF CandidateReceipts
  <2>6. TrustedBuild(receipt.build, receipt.source)'
    BY <1>0, <2>1 DEF TrustedBuild
  <2>7. QED
    BY <1>0, <2>1, <2>2, <2>4, <2>5, <2>6 DEF PlaceInv, Matrix, TrustedBuild
<1>3. ASSUME NEW target \in Targets, NEW intact \in BOOLEAN,
             StageArtifact(target, intact), ~FailPlacing
      PROVE  /\ PlaceInv'
             /\ place'.publishRun = place.publishRun /\ place'.source = place.source
  <2> DEFINE file == [target |-> target, build |-> place.receipt.build]
             path == Destination(place.template, target)
  <2>1. /\ place' = [place EXCEPT !.files = [place.files EXCEPT ![path] = file],
                                  !.todo = place.todo \ {target}]
        /\ place.pc = "stage" /\ target \in place.todo
    BY <1>3 DEF StageArtifact
  <2>2. path \in Destinations /\ place.files \in Files
    BY <1>0, DestinationTyped DEF Place
  <2>3. /\ place'.pc = "stage" /\ place'.receipt = place.receipt
        /\ place'.todo = place.todo \ {target}
        /\ place'.files = [place.files EXCEPT ![path] = file]
        /\ place'.template = place.template
        /\ place'.publishRun = place.publishRun /\ place'.source = place.source
    BY <1>0, <2>1 DEF Place
  <2>4. /\ place'.files[path] = file
        /\ \A other \in Destinations : other # path => place'.files[other] = place.files[other]
    BY <2>2, <2>3 DEF Files
  <2>5. CASE Matrix = {}
    BY <2>3, <2>5 DEF PlaceInv, Matrix
  <2>6. CASE Matrix # {}
    <3>1. /\ place.receipt \in NativeReceipt
          /\ TrustedBuild(place.receipt.build, place.receipt.source)
          /\ place.publishRun = 0 => place.receipt.source = place.source
          /\ ~PlanCollides(place.template, Matrix)
          /\ place.todo \subseteq Matrix
          /\ \A other \in Matrix \ place.todo :
               place.files[Destination(place.template, other)]
                 = [target |-> other, build |-> place.receipt.build]
          /\ \A other \in Destinations : place.files[other] # None =>
               \E t \in Matrix \ place.todo : other = Destination(place.template, t)
      BY <2>1, <2>6 DEF PlaceInv
    <3>2. target \in Matrix /\ Matrix \subseteq Targets
      BY <2>1, <3>1 DEF Matrix, MatrixOf
    <3>3. \A other \in Matrix : other # target => Destination(place.template, other) # path
      BY <3>1, <3>2 DEF PlanCollides
    <3>4. \A other \in Matrix \ place'.todo :
            place'.files[Destination(place.template, other)]
              = [target |-> other, build |-> place.receipt.build]
      <4>1. \A other \in Matrix : Destination(place.template, other) \in Destinations
        BY <3>2, DestinationTyped
      <4>2. QED
        BY <2>3, <2>4, <3>1, <3>3, <4>1
    <3>5. \A other \in Destinations : place'.files[other] # None =>
            \E t \in Matrix \ place'.todo : other = Destination(place.template, t)
      BY <2>3, <2>4, <3>1, <3>2
    <3>6. TrustedBuild(place.receipt.build, place.receipt.source)'
      BY <1>0, <2>3, <3>1 DEF TrustedBuild
    <3>7. QED
      BY <2>3, <3>1, <3>4, <3>5, <3>6 DEF PlaceInv, Matrix
  <2>7. QED
    BY <2>3, <2>5, <2>6
<1>4. ASSUME NEW generated \in BOOLEAN, FinishPlacing(generated)
      PROVE  /\ PlaceInv'
             /\ place'.publishRun = place.publishRun /\ place'.source = place.source
  <2>1. /\ place.pc = "stage" /\ place.todo = {}
        /\ place'.pc \in {"placed", "failed"}
        /\ place'.receipt = place.receipt /\ place'.todo = place.todo
        /\ place'.files = place.files /\ place'.template = place.template
        /\ place'.publishRun = place.publishRun /\ place'.source = place.source
    BY <1>0, <1>4 DEF FinishPlacing, Place
  <2>2. PlaceInv'
    BY <1>0, <2>1 DEF PlaceInv, TrustedBuild, Matrix
  <2>3. QED
    BY <2>1, <2>2
<1>5. QED
  BY <1>1, <1>2, <1>3, <1>4 DEF NativeStep

(* The files placed once placing is over are one for every target of the      *)
(* matrix, all of the build the receipt names.                                *)
LEMMA PlacedFiles ==
  ASSUME TypeInv, PlaceInv, Matrix # {}, place.pc = "placed"
  PROVE  {place.files[path] : path \in Destinations} \ {None}
           = {[target |-> target, build |-> place.receipt.build] : target \in Matrix}
<1>1. /\ place.receipt \in NativeReceipt /\ place.todo = {}
      /\ \A target \in Matrix : place.files[Destination(place.template, target)]
                                  = [target |-> target, build |-> place.receipt.build]
      /\ \A path \in Destinations : place.files[path] # None =>
           \E target \in Matrix : path = Destination(place.template, target)
  BY DEF PlaceInv
<1>2. /\ place.receipt.build \in Nat /\ Matrix \subseteq Targets
  BY <1>1 DEF NativeReceipt, Matrix, MatrixOf
<1>3. ASSUME NEW target \in Matrix
      PROVE  [target |-> target, build |-> place.receipt.build]
               \in {place.files[path] : path \in Destinations} \ {None}
  <2>1. [target |-> target, build |-> place.receipt.build] # None
    BY <1>2, NoneIsNoFile
  <2>2. Destination(place.template, target) \in Destinations
    BY <1>2, DestinationTyped
  <2>3. QED
    BY <1>1, <2>1, <2>2
<1>4. ASSUME NEW path \in Destinations, place.files[path] # None
      PROVE  place.files[path]
               \in {[target |-> target, build |-> place.receipt.build] : target \in Matrix}
  BY <1>1, <1>4
<1>5. QED
  BY <1>3, <1>4

(* A step of a publish run.                                                   *)
LEMMA PublishNatives ==
  ASSUME TypeInv, TypeInv', PlaceInv, PublishInv, StageInv,
         \/ \E head \in Heads : StartPublish(head)
         \/ NativeStep \/ RetainReceipt
         \/ \E kind \in {"committed", "prepared", "resumed"} : ReserveSource(kind)
         \/ CheckPublished \/ PackRelease
         \/ \E outcome \in UploadOutcomes : UploadStage(outcome)
  PROVE  PlaceInv' /\ PublishInv' /\ StageInv'
<1>0. /\ job \in Job /\ runs \in Seq(Run) /\ Len(runs) \in Nat /\ DOMAIN runs = 1..Len(runs)
      /\ \A run \in DOMAIN runs : runs[run] \in Run
      /\ UNCHANGED builds /\ BuildsKept
      /\ job.kind = "publish" => CurrentRun \in DOMAIN runs
  <2>1. UNCHANGED builds
    BY DEF StartPublish, NativeStep, ResolveReceipt, StageArtifact, FinishPlacing,
           RetainReceipt, ReserveSource, nativeVars, CheckPublished, PackRelease,
           UploadStage
  <2>2. QED
    BY <2>1, Elements DEF TypeInv, JobTypes, BuildsKept, CurrentRun
<1>1. ASSUME UNCHANGED stages PROVE StageInv'
  BY <1>0, <1>1 DEF StageInv, NativesBuilt
<1>2. ASSUME JobEnds, place' = IdlePlace PROVE PlaceInv' /\ PublishInv'
  <2>1. PlaceInv'
    BY <1>2, PlaceBegins
  <2>2. job'.kind = "none" /\ job'.pc = "none"
    BY <1>2 DEF JobEnds, NoJob
  <2>3. QED
    BY <2>1, <2>2 DEF PublishInv
<1>3. ASSUME NEW head \in Heads, StartPublish(head)
      PROVE  PlaceInv' /\ PublishInv' /\ StageInv'
  <2>1. /\ PlaceInv'
        /\ Matrix # {} => place'.source = head /\ place'.publishRun = 0
    BY <1>3, PlaceBegins DEF StartPublish
  <2>2. [head |-> head, source |-> None, log |-> {}, receipt |-> None,
         state |-> "running"] \in Run
    BY DEF Run, MaybeCommit, MaybeReceipt
  <2>3. runs'[Len(runs')].head = head
    BY <1>0, <1>3, <2>2, Appending DEF StartPublish
  <2>4. job'.kind = "publish" /\ job'.pc = "native"
    BY <1>0, <1>3 DEF StartPublish, Job
  <2>5. PublishInv'
    BY <2>1, <2>3, <2>4 DEF PublishInv, Matrix, CurrentRun
  <2>6. QED
    BY <1>1, <1>3, <2>1, <2>5 DEF StartPublish
<1>4. CASE NativeStep
  <2>1. /\ PlaceInv' /\ place'.publishRun = place.publishRun
        /\ place'.source = place.source
    BY <1>4, PlaceStep
  <2>2. job.pc = "native" /\ UNCHANGED <<runs, job, stages>>
    BY <1>4 DEF NativeStep, pipelineVars
  <2>3. PublishInv'
    BY <2>1, <2>2 DEF PublishInv, CurrentRun, Matrix
  <2>4. QED
    BY <1>1, <2>1, <2>2, <2>3
<1>5. CASE RetainReceipt
  <2>1. CASE place.pc = "placed"
    <3>1. /\ job.kind = "publish" /\ job.pc = "native"
          /\ job'.kind = "publish" /\ job'.pc = "reserve"
          /\ UNCHANGED <<place, stages>>
          /\ runs' = [runs EXCEPT ![CurrentRun] =
                        [runs[CurrentRun] EXCEPT !.receipt = place.receipt]]
      BY <1>0, <1>5, <2>1 DEF RetainReceipt, Job
    <3>2. /\ Len(runs') = Len(runs)
          /\ runs'[CurrentRun].head = runs[CurrentRun].head
      <4>1. /\ CurrentRun \in DOMAIN runs /\ runs[CurrentRun] \in Run
            /\ place.receipt \in MaybeReceipt
        BY <1>0, <3>1 DEF TypeInv, NativeTypes, Place
      <4>2. [runs[CurrentRun] EXCEPT !.receipt = place.receipt] \in Run
        BY <4>1 DEF Run
      <4>3. QED
        BY <1>0, <3>1, <4>1, <4>2, Replacing
    <3>3. PublishInv'
      BY <2>1, <3>1, <3>2 DEF PublishInv, CurrentRun, Matrix
    <3>4. QED
      BY <1>0, <1>1, <3>1, <3>3, PlaceStays
  <2>2. CASE place.pc # "placed"
    BY <1>1, <1>2, <1>5, <2>2 DEF RetainReceipt, EndPublish
  <2>3. QED
    BY <2>1, <2>2
<1>6. ASSUME NEW kind \in {"committed", "prepared", "resumed"}, ReserveSource(kind)
      PROVE  PlaceInv' /\ PublishInv' /\ StageInv'
  <2> DEFINE source == IF kind = "committed" THEN BumpOf(runs[CurrentRun].head)
                                             ELSE runs[CurrentRun].head
             run == [runs[CurrentRun] EXCEPT !.source = source,
                                             !.log = LogOf(kind, source)]
  <2>1. /\ job.kind = "publish" /\ job.pc = "reserve"
        /\ job'.kind = "publish" /\ job'.pc = "check"
        /\ UNCHANGED <<place, stages>> /\ source # None
    BY <1>0, <1>6 DEF ReserveSource, Job, nativeVars
  <2>2. CurrentRun \in DOMAIN runs /\ runs[CurrentRun] \in Run
    BY <1>0, <2>1
  <2>3. runs' = [runs EXCEPT ![CurrentRun] = run]
    <3>1. runs' = [runs EXCEPT ![CurrentRun].source = source,
                               ![CurrentRun].log = LogOf(kind, source)]
      BY <1>6 DEF ReserveSource
    <3>2. QED
      BY <1>0, <2>2, <3>1
  <2>4. run.head = runs[CurrentRun].head /\ run.source = source
    <3> HIDE DEF source
    <3>1. QED
      BY <2>2 DEF Run
  <2>5. runs[CurrentRun].head \in {source} \cup Parents(source)
    <3>1. runs[CurrentRun].head \in Heads
      BY <2>2 DEF Run
    <3>2. QED
      BY <2>1, <3>1, BumpAssumption
  <2> HIDE DEF source, run
  <2>6. Len(runs') = Len(runs) /\ runs'[CurrentRun] = run
    BY <1>0, <2>2, <2>3, LenProperties, ExceptSeq
  <2>7. PublishInv'
    BY <2>1, <2>4, <2>5, <2>6 DEF PublishInv, CurrentRun, Matrix
  <2>8. QED
    BY <1>0, <1>1, <2>1, <2>7, PlaceStays
<1>7. CASE CheckPublished
  <2>1. CASE public # NoTarball
    BY <1>1, <1>2, <1>7, <2>1 DEF CheckPublished, EndPublish
  <2>2. CASE public = NoTarball
    <3>1. /\ job.kind = "publish" /\ job.pc = "check"
          /\ job'.kind = "publish" /\ job'.pc = "pack"
          /\ UNCHANGED <<runs, place, stages>>
      BY <1>0, <1>7, <2>2 DEF CheckPublished, Job
    <3>2. PublishInv'
      BY <3>1 DEF PublishInv, CurrentRun, Matrix
    <3>3. QED
      BY <1>0, <1>1, <3>1, <3>2, PlaceStays
  <2>3. QED
    BY <2>1, <2>2
<1>8. CASE PackRelease
  <2>1. CASE EndPublish("failure")
    BY <1>1, <1>2, <1>8, <2>1 DEF PackRelease, EndPublish
  <2>2. CASE ~EndPublish("failure")
    <3>1. PICK bytes \in Packs(runs[CurrentRun].source) :
            job' = [job EXCEPT !.pc = "upload", !.bytes = bytes]
      BY <1>8, <2>2 DEF PackRelease
    <3>2. /\ job.kind = "publish" /\ job.pc = "pack"
          /\ job'.kind = "publish" /\ job'.pc = "upload" /\ job'.bytes = bytes
          /\ UNCHANGED <<runs, place, stages>>
      BY <1>0, <1>8, <2>2, <3>1 DEF PackRelease, Job
    <3>3. /\ bytes.source = runs[CurrentRun].source
          /\ bytes.natives = place.files
      BY <3>1 DEF Packs
    <3>4. NativesBuilt(bytes)
      <4>1. SUFFICES ASSUME Matrix # {} PROVE NativesBuilt(bytes)
        BY DEF NativesBuilt, BuiltIn
      <4>2. /\ place.pc = "placed" /\ place.publishRun = 0
            /\ place.source = runs[CurrentRun].head
            /\ runs[CurrentRun].head \in {bytes.source} \cup Parents(bytes.source)
        BY <3>2, <3>3, <4>1 DEF PublishInv
      <4>3. /\ TrustedBuild(place.receipt.build, place.receipt.source)
            /\ place.receipt.source = place.source
        BY <4>1, <4>2 DEF PlaceInv
      <4>4. {bytes.natives[path] : path \in Destinations} \ {None}
              = {[target |-> target, build |-> place.receipt.build] : target \in Matrix}
        BY <3>3, <4>1, <4>2, PlacedFiles
      <4>5. /\ place.receipt.build \in DOMAIN builds
            /\ builds[place.receipt.build].state = "success"
            /\ builds[place.receipt.build].sha \in {bytes.source} \cup Parents(bytes.source)
        BY <4>2, <4>3 DEF TrustedBuild
      <4>6. QED
        BY <4>4, <4>5, Zenon DEF NativesBuilt, BuiltIn
    <3>5. PublishInv'
      BY <1>0, <3>2, <3>4 DEF PublishInv, CurrentRun, NativesBuilt
    <3>6. QED
      BY <1>0, <1>1, <3>2, <3>5, PlaceStays
  <2>3. QED
    BY <2>1, <2>2
<1>9. ASSUME NEW outcome \in UploadOutcomes, UploadStage(outcome)
      PROVE  PlaceInv' /\ PublishInv' /\ StageInv'
  <2>1. PlaceInv' /\ PublishInv'
    BY <1>2, <1>9 DEF UploadStage, EndPublish
  <2>2. /\ NativesBuilt(job.bytes) /\ stages \in Seq(Stage)
        /\ [bytes |-> job.bytes, state |-> "staged"] \in Stage
    BY <1>9 DEF UploadStage, PublishInv, TypeInv, StageTypes, JobTypes, Stage
  <2>3. CASE UNCHANGED stages
    BY <1>1, <2>1, <2>3
  <2>4. CASE stages' = Append(stages, [bytes |-> job.bytes, state |-> "staged"])
    <3>1. \A id \in DOMAIN stages' :
            \/ stages'[id].bytes = job.bytes
            \/ id \in DOMAIN stages /\ stages'[id] = stages[id]
      BY <2>2, <2>4, Appending
    <3>2. StageInv'
      BY <1>0, <2>2, <3>1 DEF StageInv, NativesBuilt
    <3>3. QED
      BY <2>1, <3>2
  <2>5. QED
    BY <1>9, <2>3, <2>4 DEF UploadStage
<1>10. QED
  BY <1>3, <1>4, <1>5, <1>6, <1>7, <1>8, <1>9

(* A step of a scan run, and the loss of a runner: the run they may place     *)
(* natives for is no publish run, or no longer one.                           *)
LEMMA ScanNatives ==
  ASSUME TypeInv, PlaceInv, PublishInv, StageInv,
         \/ \E input \in ScanInputs : StartScan(input)
         \/ \E head \in Commits : VerifyScanSource(head)
         \/ \E found \in BOOLEAN : DownloadStage(found)
         \/ PackForScan \/ CallScan \/ WriteScanReceipt \/ LoseRunner
  PROVE  PlaceInv' /\ PublishInv' /\ StageInv'
<1>0. job \in Job
  BY DEF TypeInv, JobTypes
<1>1. UNCHANGED <<builds, stages>> /\ BuildsKept
  BY DEF StartScan, VerifyScanSource, DownloadStage, PackForScan, CallScan,
         WriteScanReceipt, LoseRunner, nativeVars, BuildsKept
<1>2. StageInv'
  BY <1>1 DEF StageInv, NativesBuilt
<1>3. PlaceInv'
  <2>1. \/ UNCHANGED place
        \/ place' = IdlePlace
        \/ \E source \in {job.input.source}, run \in {job.input.run} : BeginPlacing(source, run)
    BY DEF StartScan, VerifyScanSource, ScanJobFails, DownloadStage, PackForScan,
           CallScan, WriteScanReceipt, LoseRunner, nativeVars
  <2>2. QED
    BY <1>1, <2>1, PlaceStays, PlaceBegins
<1>4. job'.kind # "publish" /\ job'.pc # "upload"
  BY <1>0 DEF StartScan, VerifyScanSource, ScanJobFails, DownloadStage, PackForScan,
         CallScan, WriteScanReceipt, LoseRunner, JobEnds, NoJob, Job
<1>5. QED
  BY <1>2, <1>3, <1>4 DEF PublishInv

(* A step beside the jobs: the natives placed, the publish run and the bytes  *)
(* of the stages stay, and native builds that succeeded are kept.             *)
LEMMA NativesAside ==
  ASSUME TypeInv, PlaceInv, PublishInv, StageInv, BuildsKept,
         UNCHANGED <<place, runs, job>>,
         DOMAIN stages' = DOMAIN stages,
         \A id \in DOMAIN stages : stages'[id].bytes = stages[id].bytes
  PROVE  PlaceInv' /\ PublishInv' /\ StageInv'
<1>1. StageInv'
  BY NativesStay DEF StageInv, NativesBuilt
<1>2. job.pc = "upload" => BuiltIn(job.bytes, builds')
  BY NativesStay DEF PublishInv, NativesBuilt
<1>3. PublishInv'
  BY <1>2 DEF PublishInv, NativesBuilt, CurrentRun, Matrix
<1>4. QED
  BY <1>1, <1>3, PlaceStays

(* Every step keeps the natives of one build.                                 *)
LEMMA NativesStep ==
  ASSUME TypeInv, TypeInv', PlaceInv, PublishInv, StageInv, [Next]_vars
  PROVE  PlaceInv' /\ PublishInv' /\ StageInv'
<1>0. UNCHANGED builds => BuildsKept
  BY DEF BuildsKept
<1>1. CASE UNCHANGED releaseVars
  BY <1>0, <1>1, NativesAside DEF releaseVars
<1>2. CASE Rejecting
  BY <1>0, <1>2, RejectTypes, NativesAside
<1>3. CASE JobStep
  <2>1. CASE job.pc = "gate" /\ PromiseStep /\ UNCHANGED <<nativeVars, pipelineVars>>
    BY <1>0, <2>1, NativesAside DEF nativeVars, pipelineVars
  <2>2. QED
    BY <1>3, <2>1, PublishNatives, ScanNatives DEF JobStep
<1>4. CASE CoordStep
  <2>1. CASE ApproveStage
    <3>1. /\ UNCHANGED <<place, runs, job, builds>>
          /\ coord.stage \in DOMAIN stages
          /\ \/ UNCHANGED stages
             \/ stages' = [stages EXCEPT ![coord.stage].state = "approved"]
      BY <2>1 DEF ApproveStage, nativeVars, TypeInv, StageTypes
    <3>2. CASE UNCHANGED stages
      BY <1>0, <3>1, <3>2, NativesAside
    <3>3. CASE stages' = [stages EXCEPT ![coord.stage].state = "approved"]
      <4>1. \A id \in DOMAIN stages : stages[id] \in Stage
        BY Elements DEF TypeInv, StageTypes
      <4>2. /\ DOMAIN stages' = DOMAIN stages
            /\ \A id \in DOMAIN stages : stages'[id].bytes = stages[id].bytes
        BY <3>1, <3>3, <4>1 DEF Stage
      <4>3. QED
        BY <1>0, <3>1, <4>2, NativesAside
    <3>4. QED
      BY <3>1, <3>2, <3>3
  <2>2. CASE UNCHANGED <<place, runs, job, builds, stages>>
    BY <1>0, <2>2, NativesAside
  <2>3. QED
    BY <1>4, <2>1, <2>2
    DEF CoordStep, VerifyStage, AcceptReceipt, CallOwnScan, TakeVerdict, GiveUpStage,
        nativeVars, pipelineVars
<1>5. CASE NativeBuildStep /\ UNCHANGED <<pipelineVars, call, scans>>
  BY <1>5, BuildsGrow, NativesAside DEF pipelineVars, TypeInv
<1>6. CASE ServiceStep /\ UNCHANGED <<pipelineVars, nativeVars>>
  BY <1>0, <1>6, NativesAside DEF pipelineVars, nativeVars
<1>7. CASE \/ \E head \in Heads : StartPublish(head)
           \/ \E input \in ScanInputs : StartScan(input)
           \/ LoseRunner
  BY <1>7, PublishNatives, ScanNatives
<1>8. QED
  BY <1>1, <1>2, <1>3, <1>4, <1>5, <1>6, <1>7 DEF Next, ReleaseNext, vars

(* A stage of a package with natives has exactly one file per target of the  *)
(* matrix, all of one build that succeeded for the commit it was packed from *)
(* or for the one its bump was made on, whatever jobs fail or are lost.      *)
THEOREM NativesAreOfOneBuild == Spec => []NativesOfOneBuild
<1>1. Init => PlaceInv /\ PublishInv /\ StageInv
  BY DEF Init, ReleaseInit, NativeInit, IdlePlace, PlaceInv, PublishInv, StageInv, NoJob
<1>2. StageInv => NativesOfOneBuild
  BY DEF StageInv, NativesBuilt, BuiltIn, Matrix, NativesOfOneBuild
<1>3. QED
  BY <1>1, <1>2, TypeInit, TypeStep, NativesStep, PTL DEF Spec

(******************************************************************************)
(* The release record.                                                        *)
(******************************************************************************)
(* The record command starts with nothing recorded.                           *)
LEMMA RecordInitial == Init => RecordTypes /\ RecordInv
<1> SUFFICES ASSUME Init PROVE RecordTypes /\ RecordInv
  OBVIOUS
<1>1. RecordTypes
  BY DEF Init, RecordInit, NoDirect, NoRecord, RecordTypes, Names
<1>2. RecordInv
  BY DEF Init, RecordInit, NoRecord, RecordInv
<1>3. QED
  BY <1>1, <1>2

(* What can be installed stays installable.                                   *)
LEMMA PublicStays ==
  ASSUME RecordTypes, [Next]_vars
  PROVE  \A name \in Names : IsPublic(name) => IsPublic(name)'
<1>1. public # NoTarball => UNCHANGED public
  <2>1. CASE CoordStep
    BY <2>1 DEF CoordStep, VerifyStage, AcceptReceipt, CallOwnScan, TakeVerdict,
                ApproveStage, GiveUpStage, pipelineVars
  <2>2. CASE JobStep
    BY <2>2 DEF JobStep, NativeStep, RetainReceipt, ReserveSource, CheckPublished,
                PackRelease, UploadStage, VerifyScanSource, DownloadStage, PackForScan,
                CallScan, WriteScanReceipt, pipelineVars
  <2>3. CASE ReleaseNext /\ ~CoordStep /\ ~JobStep
    BY <2>3 DEF ReleaseNext, StartPublish, StartScan, LoseRunner, pipelineVars
  <2>4. CASE UNCHANGED releaseVars \/ Rejecting
    BY <2>4 DEF releaseVars, Rejecting, RejectStages
  <2>5. QED
    BY <2>1, <2>2, <2>3, <2>4 DEF Next, vars
<1>2. \A name \in Members : member[name] = "public" => member'[name] = "public"
  <2>1. CASE OutsideStep
    <3>1. ASSUME NEW outcome \in UploadOutcomes, UploadDirect(outcome)
          PROVE  \A name \in Members : member[name] = "public" => member'[name] = "public"
      BY <3>1 DEF UploadDirect, RecordTypes
    <3>2. ASSUME NEW n \in Members, Appear(n) \/ ApproveMember(n)
          PROVE  \A name \in Members : member[name] = "public" => member'[name] = "public"
      BY <3>2 DEF Appear, ApproveMember, RecordTypes
    <3>3. CASE UNCHANGED member
      BY <3>3
    <3>4. QED
      BY <2>1, <3>1, <3>2, <3>3
      DEF OutsideStep, StartDirect, ReleaseDirect, StartAbandon, RecordCommandStep,
          CheckName, RecordName, AllChecked, AllRecorded, AllRejected, RecordDies
  <2>2. CASE Rejecting
    BY <2>2 DEF Rejecting, RejectStages, RecordTypes, Names
  <2>3. CASE UNCHANGED member
    BY <2>3
  <2>4. QED
    BY <2>1, <2>2, <2>3 DEF Next, vars, recordVars
<1>3. QED
  BY <1>1, <1>2 DEF IsPublic, Names

(* A step of a direct publish, or of the registry, beside the record command. *)
LEMMA DirectStep ==
  ASSUME RecordTypes,
         \/ \E name \in Members : StartDirect(name) \/ Appear(name) \/ ApproveMember(name)
         \/ \E outcome \in UploadOutcomes : UploadDirect(outcome)
         \/ \E isLive \in BOOLEAN : ReleaseDirect(isLive)
  PROVE  RecordTypes' /\ UNCHANGED <<ledger, record>>
<1>1. UNCHANGED <<ledger, record>>
  BY DEF StartDirect, Appear, ApproveMember, UploadDirect, ReleaseDirect
<1>2. CASE \E name \in Members : StartDirect(name)
  BY <1>1, <1>2 DEF StartDirect, RecordTypes, Names
<1>3. CASE \E name \in Members : Appear(name) \/ ApproveMember(name)
  BY <1>1, <1>3 DEF Appear, ApproveMember, RecordTypes
<1>4. ASSUME NEW outcome \in UploadOutcomes, UploadDirect(outcome)
      PROVE  RecordTypes'
  <2>1. direct.name \in Members /\ direct.pc = "upload"
    BY <1>4 DEF UploadDirect, RecordTypes
  <2>2. direct' \in [pc : {"idle", "upload", "live"}, name : Names]
        /\ (direct'.pc # "idle" => direct'.name \in Members)
    BY <1>4, <2>1 DEF UploadDirect, RecordTypes, NoDirect, Names
  <2>3. member' \in [Members -> {"absent", "staged", "accepted", "public", "rejected"}]
    BY <1>4, <2>1 DEF UploadDirect, RecordTypes
  <2>4. UNCHANGED released
    BY <1>4 DEF UploadDirect
  <2>5. QED
    BY <1>1, <2>2, <2>3, <2>4 DEF RecordTypes
<1>5. ASSUME NEW isLive \in BOOLEAN, ReleaseDirect(isLive)
      PROVE  RecordTypes'
  <2>1. /\ direct.name \in Members /\ direct' = NoDirect /\ UNCHANGED member
        /\ \/ released' = released
           \/ released' = released \cup {direct.name}
    BY <1>5 DEF ReleaseDirect, RecordTypes
  <2>2. QED
    BY <1>1, <2>1 DEF RecordTypes, NoDirect, Names
<1>6. QED
  BY <1>1, <1>2, <1>3, <1>4, <1>5

(* A step of the record command.                                              *)
LEMMA CommandStep ==
  ASSUME RecordTypes, RecordInv, \A name \in Names : IsPublic(name) => IsPublic(name)',
         \/ \E request \in AbandonRequests, name \in Names, dryRun \in BOOLEAN :
              StartAbandon(request, name, dryRun)
         \/ RecordCommandStep
         \/ RecordDies
         \/ Rejecting
  PROVE  /\ RecordTypes' /\ RecordInv' /\ UNCHANGED released
         /\ ledger' # ledger => record.publicBefore = {}
<1> DEFINE Record == [pc : {"idle", "check", "record", "reject"}, names : SUBSET Names,
                      todo : SUBSET Names, recordOnly : BOOLEAN, dryRun : BOOLEAN,
                      publicBefore : SUBSET Names, commands : Nat]
<1>0. record \in Record
  BY DEF RecordTypes
<1>1. ASSUME EndRecord PROVE record' \in Record /\ RecordInv'
  <2>1. record' = [pc |-> "idle", names |-> {}, todo |-> {}, recordOnly |-> FALSE,
                   dryRun |-> FALSE, publicBefore |-> {}, commands |-> record.commands]
    BY <1>1 DEF EndRecord, NoRecord
  <2>2. QED
    BY <1>0, <2>1 DEF RecordInv
<1>2. ASSUME NEW request \in AbandonRequests, NEW name \in Names, NEW dryRun \in BOOLEAN,
             StartAbandon(request, name, dryRun)
      PROVE  /\ RecordTypes' /\ RecordInv' /\ UNCHANGED <<released, ledger>>
  <2> DEFINE names == IF request.all THEN Names ELSE {name}
  <2>1. /\ record' = [pc |-> "check", names |-> names, todo |-> names,
                      recordOnly |-> request.recordOnly, dryRun |-> dryRun,
                      publicBefore |-> {n \in names : IsPublic(n)},
                      commands |-> record.commands + 1]
        /\ UNCHANGED <<member, direct, released, ledger>>
    BY <1>2 DEF StartAbandon
  <2>2. names \subseteq Names /\ request.recordOnly \in BOOLEAN /\ record.commands + 1 \in Nat
    <3>1. PICK args \in Arguments : request = [all |-> args.all, recordOnly |-> args.recordOnly]
      BY DEF AbandonRequests
    <3>2. QED
      BY <1>0, <3>1 DEF Arguments
  <2> HIDE DEF names
  <2>3. record' \in Record
    BY <2>1, <2>2
  <2>4. RecordTypes'
    BY <2>1, <2>3 DEF RecordTypes
  <2>5. RecordInv'
    <3>1. record'.pc = "check" /\ record'.todo = names
          /\ record'.publicBefore = {n \in names : IsPublic(n)}
      BY <2>1
    <3>2. \A n \in record'.publicBefore : n \in record'.todo /\ IsPublic(n)'
      BY <2>2, <3>1
    <3>3. QED
      BY <3>1, <3>2 DEF RecordInv
  <2>6. QED
    BY <2>1, <2>4, <2>5
<1>3. ASSUME NEW name \in Names, CheckName(name)
      PROVE  /\ RecordTypes' /\ RecordInv' /\ UNCHANGED <<released, ledger>>
  <2>1. UNCHANGED <<member, direct, released, ledger>>
    BY <1>3 DEF CheckName
  <2>2. CASE IsPublic(name)
    BY <1>1, <1>3, <2>1, <2>2 DEF CheckName, RecordTypes
  <2>3. CASE ~IsPublic(name)
    <3>1. record.pc = "check" /\ record' = [record EXCEPT !.todo = record.todo \ {name}]
      BY <1>3, <2>3 DEF CheckName
    <3>2. /\ record' \in Record /\ record'.pc = "check"
          /\ record'.todo = record.todo \ {name}
          /\ record'.publicBefore = record.publicBefore
      BY <1>0, <3>1
    <3>3. \A n \in record'.publicBefore : n \in record'.todo /\ IsPublic(n)'
      <4>1. \A n \in record.publicBefore : n \in record.todo /\ IsPublic(n) /\ n \in Names
        BY <1>0, <3>1 DEF RecordInv
      <4>2. QED
        BY <2>3, <3>2, <4>1
    <3>4. QED
      BY <2>1, <3>2, <3>3 DEF RecordTypes, RecordInv
  <2>4. QED
    BY <2>2, <2>3
<1>4. ASSUME NEW name \in Names, RecordName(name)
      PROVE  /\ RecordTypes' /\ RecordInv' /\ UNCHANGED released
             /\ record.publicBefore = {}
  <2>1. /\ record.pc = "record" /\ record' = [record EXCEPT !.todo = record.todo \ {name}]
        /\ ledger' = ledger \cup {name} /\ UNCHANGED <<member, direct, released>>
    BY <1>4 DEF RecordName
  <2>2. /\ record' \in Record /\ record'.pc = "record"
        /\ record'.todo = record.todo \ {name} /\ record'.names = record.names
        /\ record'.publicBefore = record.publicBefore
    BY <1>0, <2>1
  <2>3. QED
    BY <2>1, <2>2 DEF RecordTypes, RecordInv
<1>5. ASSUME AllChecked \/ AllRecorded \/ AllRejected \/ RecordDies
      PROVE  /\ RecordTypes' /\ RecordInv' /\ UNCHANGED <<released, ledger>>
  <2>1. UNCHANGED <<member, direct, released, ledger>>
    BY <1>5 DEF AllChecked, AllRecorded, AllRejected, RecordDies
  <2>2. CASE EndRecord
    BY <1>1, <2>1, <2>2 DEF RecordTypes
  <2>3. CASE /\ record.pc = "check" /\ record.todo = {}
             /\ record' = [record EXCEPT !.pc = "record", !.todo = record.names]
    <3>1. /\ record' \in Record /\ record'.pc = "record" /\ record'.names = record.names
          /\ record'.todo = record.names /\ record'.publicBefore = record.publicBefore
      BY <1>0, <2>3
    <3>2. record.publicBefore = {}
      BY <2>3 DEF RecordInv
    <3>3. QED
      BY <2>1, <3>1, <3>2 DEF RecordTypes, RecordInv
  <2>4. CASE /\ record.pc = "record" /\ record.todo = {}
             /\ record' = [record EXCEPT !.pc = "reject", !.todo = record.names]
    <3>1. /\ record' \in Record /\ record'.pc = "reject" /\ record'.names = record.names
          /\ record'.publicBefore = record.publicBefore
      BY <1>0, <2>4
    <3>2. record.publicBefore = {} /\ record.names \subseteq ledger
      BY <2>4 DEF RecordInv
    <3>3. QED
      BY <2>1, <3>1, <3>2 DEF RecordTypes, RecordInv
  <2>5. QED
    BY <1>5, <2>2, <2>3, <2>4 DEF AllChecked, AllRecorded, AllRejected, RecordDies
<1>6. ASSUME Rejecting
      PROVE  /\ RecordTypes' /\ RecordInv' /\ UNCHANGED <<released, ledger>>
  <2>1. PICK name \in Names, refused \in SUBSET DOMAIN stages : RejectStages(name, refused)
    BY <1>6 DEF Rejecting
  <2>2. /\ record.pc = "reject" /\ record' = [record EXCEPT !.todo = record.todo \ {name}]
        /\ UNCHANGED <<direct, released, ledger>>
    BY <2>1 DEF RejectStages
  <2>3. /\ record' \in Record /\ record'.pc = "reject" /\ record'.names = record.names
        /\ record'.publicBefore = record.publicBefore
    BY <1>0, <2>2
  <2>4. member' \in [Members -> {"absent", "staged", "accepted", "public", "rejected"}]
    BY <2>1 DEF RejectStages, RecordTypes
  <2>5. QED
    BY <2>2, <2>3, <2>4 DEF RecordTypes, RecordInv
<1>7. QED
  BY <1>2, <1>3, <1>4, <1>5, <1>6 DEF RecordCommandStep

(* Every step keeps the record's promises.                                    *)
LEMMA RecordStep ==
  ASSUME RecordTypes, RecordInv, [Next]_vars
  PROVE  /\ RecordTypes' /\ RecordInv'
         /\ ledger' # ledger => record.publicBefore = {}
<1>1. \A name \in Names : IsPublic(name) => IsPublic(name)'
  BY PublicStays
<1>2. CASE UNCHANGED recordVars
  <2>1. RecordTypes'
    BY <1>2 DEF recordVars, RecordTypes
  <2>2. RecordInv'
    BY <1>1, <1>2 DEF recordVars, RecordInv, RecordTypes
  <2>3. QED
    BY <1>2, <2>1, <2>2 DEF recordVars
<1>3. CASE \/ \E name \in Members : StartDirect(name) \/ Appear(name) \/ ApproveMember(name)
           \/ \E outcome \in UploadOutcomes : UploadDirect(outcome)
           \/ \E isLive \in BOOLEAN : ReleaseDirect(isLive)
  <2>1. RecordTypes' /\ UNCHANGED <<ledger, record>>
    BY <1>1, <1>3, DirectStep
  <2>2. RecordInv'
    BY <1>1, <2>1 DEF RecordInv, RecordTypes
  <2>3. QED
    BY <2>1, <2>2
<1>4. CASE \/ \E request \in AbandonRequests, name \in Names, dryRun \in BOOLEAN :
                StartAbandon(request, name, dryRun)
           \/ RecordCommandStep
           \/ RecordDies
           \/ Rejecting
  BY <1>1, <1>4, CommandStep
<1>5. QED
  BY <1>2, <1>3, <1>4 DEF Next, OutsideStep, vars

(* Every variable of a release and of its record keeps its type, whatever     *)
(* jobs, coordinators and record commands do and wherever they stop.          *)
THEOREM ReleaseTypeCorrect == Spec => [](TypeInv /\ RecordTypes)
BY TypeInit, TypeStep, RecordInitial, RecordStep, PTL DEF Spec

(* A command asked to abandon a release with a public package records nothing.*)
THEOREM NothingAbandonedIfPublic == Spec => NoneAbandonedIfPublic
<1>1. RecordTypes /\ RecordInv /\ [Next]_vars
        => [ledger' # ledger => record.publicBefore = {}]_vars
  BY RecordStep
<1>2. QED
  BY <1>1, RecordInitial, RecordStep, PTL DEF Spec, NoneAbandonedIfPublic

(* A stage is thrown away only once every package of its release is recorded. *)
THEOREM RejectedOnceRecorded == Spec => RejectedAfterRecorded
<1>1. TypeInv /\ RecordInv /\ [Next]_vars
        => [(\E id \in DOMAIN stages : stages[id].state # "rejected"
                                       /\ stages'[id].state = "rejected")
              => record.names \subseteq ledger]_vars
  <2> SUFFICES ASSUME TypeInv, RecordInv, [Next]_vars,
                      NEW id \in DOMAIN stages, stages[id].state # "rejected",
                      stages'[id].state = "rejected"
               PROVE  record.names \subseteq ledger
    OBVIOUS
  <2>0. stages \in Seq(Stage) /\ \A i \in DOMAIN stages : stages[i] \in Stage
    BY Elements DEF TypeInv, StageTypes
  <2>1. CASE Rejecting
    BY <2>1 DEF Rejecting, RejectStages, RecordInv
  <2>2. CASE \E outcome \in UploadOutcomes : UploadStage(outcome)
    <3>1. [bytes |-> job.bytes, state |-> "staged"] \in Stage
      BY <2>2 DEF UploadStage, TypeInv, JobTypes, Stage
    <3>2. stages'[id] = stages[id]
      BY <2>0, <2>2, <3>1, Appending DEF UploadStage
    <3>3. QED
      BY <3>2
  <2>3. CASE ApproveStage
    BY <2>0, <2>3 DEF ApproveStage, Stage
  <2>4. CASE UNCHANGED stages
    BY <2>4
  <2>5. QED
    <3>1. CASE JobStep
      BY <2>2, <2>4, <3>1
      DEF JobStep, NativeStep, RetainReceipt, ReserveSource, CheckPublished, PackRelease,
          VerifyScanSource, DownloadStage, PackForScan, CallScan, WriteScanReceipt,
          pipelineVars
    <3>2. CASE CoordStep
      BY <2>3, <2>4, <3>2
      DEF CoordStep, VerifyStage, AcceptReceipt, CallOwnScan, TakeVerdict, GiveUpStage,
          pipelineVars
    <3>3. CASE ReleaseNext /\ ~JobStep /\ ~CoordStep
      BY <2>4, <3>3 DEF ReleaseNext, StartPublish, StartScan, LoseRunner, pipelineVars
    <3>4. QED
      BY <2>1, <2>4, <3>1, <3>2, <3>3 DEF Next, vars, releaseVars
<1>2. QED
  BY <1>1, TypeInit, TypeStep, RecordInitial, RecordStep, PTL DEF Spec, RejectedAfterRecorded
==============================================================================
