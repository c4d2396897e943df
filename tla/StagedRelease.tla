---------------------------- MODULE StagedRelease ----------------------------
(* A staged npm release from the dispatch of the publish workflow to the      *)
(* approval of its stage: the publish run (.github/workflows/publish-npm.yml, *)
(* registry/npm/staged.mts runStaged), the scan run of the same workflow      *)
(* (npm/scan/staged.mts, receipt.mts), which awaits the scan gate (of which   *)
(* only the promise matters here, ScanPromise), and the coordinator that      *)
(* verifies a stage (verifyStagedEntryRouted) and approves it.  The           *)
(* workflow's concurrency group lets one run at a time be in progress; the    *)
(* coordinator and the registry go on beside it.                              *)
(*                                                                            *)
(* Bytes are [source, natives, malware, env]: the commit they were packed     *)
(* from, the native files, what a scan of them finds, and the envelope        *)
(* (platform and tool metadata of the archive), which is all that differs     *)
(* between two packs of one content.                                          *)
EXTENDS ScanPromise, NativeArtifacts

CONSTANTS
  BumpOf(_),    \* the version-bump commit the release App makes on a commit
  MaxRuns,      \* bound: publish runs
  MaxScanJobs   \* bound: scan runs

ASSUME ReleaseBounds == MaxRuns \in Nat /\ MaxScanJobs \in Nat

\* A bump is a commit made on the head it bumps.
ASSUME BumpAssumption ==
  \A head \in Heads :
    BumpOf(head) # None => BumpOf(head) \in Commits /\ head \in Parents(BumpOf(head))

VARIABLES
  runs,       \* publish runs: head, source, log, native receipt, conclusion
  job,        \* the workflow run in progress
  stages,     \* the registry's stages: bytes and state
  public,     \* the registry's public tarball of the version
  receipts,   \* scan receipts, in the order they were uploaded
  coord       \* the coordinator

pipelineVars == <<runs, job, stages, public, receipts, coord>>
releaseVars == <<call, scans, builds, place, runs, job, stages, public, receipts, coord>>

NoJob == [kind |-> "none", pc |-> "none", input |-> NoTarball, bytes |-> NoTarball,
          scansDone |-> 0]
IdleCoord == [pc |-> "idle", stage |-> 0]

ReleaseInit ==
  /\ PromiseInit
  /\ NativeInit
  /\ runs = << >>
  /\ job = NoJob
  /\ stages = << >>
  /\ public = NoTarball
  /\ receipts = << >>
  /\ coord = IdleCoord

Content(bytes) == [source |-> bytes.source, natives |-> bytes.natives,
                   malware |-> bytes.malware]

-----------------------------------------------------------------------------
(* The publish run.                                                           *)
CurrentRun == Len(runs)

JobEnds == job' = [NoJob EXCEPT !.scansDone = job.scansDone]

EndPublish(conclusion) ==
  /\ JobEnds
  /\ runs' = [runs EXCEPT ![CurrentRun].state = conclusion]
  /\ place' = IdlePlace

StartPublish(head) ==
  /\ job.kind = "none"
  /\ CurrentRun < MaxRuns
  /\ runs' = Append(runs, [head |-> head, source |-> None, log |-> {},
                           receipt |-> None, state |-> "running"])
  /\ job' = [job EXCEPT !.kind = "publish", !.pc = "native"]
  /\ BeginPlacing(head, 0)
  /\ UNCHANGED <<builds, call, scans, stages, public, receipts, coord>>

ReceiptOfRun(run) == IF run \in DOMAIN runs THEN runs[run].receipt ELSE None

\* One step of native-artifacts.mts inside the job.
NativeStep ==
  /\ job.pc = "native"
  /\ \/ ResolveReceipt(ReceiptOfRun(place.publishRun))
     \/ \E target \in Targets, intact \in BOOLEAN : StageArtifact(target, intact)
     \/ \E generated \in BOOLEAN : FinishPlacing(generated)
  /\ UNCHANGED <<pipelineVars, call, scans>>

\* "Retain native artifact receipt" runs only after the staging succeeded.
RetainReceipt ==
  /\ job.kind = "publish" /\ job.pc = "native"
  /\ IF place.pc = "placed"
       THEN /\ runs' = [runs EXCEPT ![CurrentRun].receipt = place.receipt]
            /\ job' = [job EXCEPT !.pc = "reserve"]
            /\ UNCHANGED place
       ELSE place.pc = "failed" /\ EndPublish("failure")
  /\ UNCHANGED <<builds, call, scans, stages, public, receipts, coord>>

\* The publish command fixes the source commit of the release and says so in
\* the log of the run: it commits a bump, finds the bump prepared, or resumes
\* from a reserved one.
LogOf(kind, source) ==
  CASE kind = "committed" -> {[kind |-> "committed", sha |-> source],
                              [kind |-> "fetched", sha |-> source]}
    [] kind = "prepared"  -> {[kind |-> "prepared", sha |-> None],
                              [kind |-> "branch", sha |-> source]}
    [] kind = "resumed"   -> {[kind |-> "resumed", sha |-> source],
                              [kind |-> "reserved", sha |-> source]}

ReserveSource(kind) ==
  /\ job.kind = "publish" /\ job.pc = "reserve"
  /\ LET head == runs[CurrentRun].head
         source == IF kind = "committed" THEN BumpOf(head) ELSE head
     IN  /\ source # None
         /\ runs' = [runs EXCEPT ![CurrentRun].source = source,
                                 ![CurrentRun].log = LogOf(kind, source)]
  /\ job' = [job EXCEPT !.pc = "check"]
  /\ UNCHANGED <<nativeVars, call, scans, stages, public, receipts, coord>>

\* stageAction: a version that is public already is a success with nothing
\* staged.
CheckPublished ==
  /\ job.kind = "publish" /\ job.pc = "check"
  /\ IF public # NoTarball
       THEN EndPublish("success")
       ELSE job' = [job EXCEPT !.pc = "pack"] /\ UNCHANGED <<runs, place>>
  /\ UNCHANGED <<builds, call, scans, stages, public, receipts, coord>>

Packs(source) ==
  {[source |-> source, natives |-> place.files, malware |-> malware, env |-> "ci"] :
     malware \in BOOLEAN}

\* The reserved tarball, or defaultPackTarball inside the README and manifest
\* brackets; then verifyPackedPayload over the same bytes.
PackRelease ==
  /\ job.kind = "publish" /\ job.pc = "pack"
  /\ \/ EndPublish("failure")
     \/ /\ \E bytes \in Packs(runs[CurrentRun].source) :
             job' = [job EXCEPT !.pc = "upload", !.bytes = bytes]
        /\ UNCHANGED <<runs, place>>
  /\ UNCHANGED <<builds, call, scans, stages, public, receipts, coord>>

\* uploadNpmPackage: the stage may exist although the run fails, because the
\* answer was lost or another credential than the OIDC one was used.
UploadOutcomes == {"uploaded", "answer lost", "wrong credential", "rejected"}
UploadStage(outcome) ==
  /\ job.kind = "publish" /\ job.pc = "upload"
  /\ stages' = IF outcome = "rejected" THEN stages
               ELSE Append(stages, [bytes |-> job.bytes, state |-> "staged"])
  /\ EndPublish(IF outcome = "uploaded" THEN "success" ELSE "failure")
  /\ UNCHANGED <<builds, call, scans, public, receipts, coord>>

-----------------------------------------------------------------------------
(* receipt.mts: which commit the log of a publish run vouches for.            *)
Logged(run, kind) == {entry.sha : entry \in {e \in runs[run].log : e.kind = kind}}

\* parseNpmPublishSourceEvidence: one committed or resumed commit and nothing
\* else, or one prepared version with its branch marker.
SourceEvidence(run) ==
  LET committed == Logged(run, "committed")
      resumed   == Logged(run, "resumed")
      ordinary  == ({"committed"} \X committed) \cup ({"resumed"} \X resumed)
  IN  IF ordinary # {}
        THEN IF Cardinality(ordinary) = 1 /\ Logged(run, "prepared") = {}
               THEN ordinary ELSE {}
        ELSE IF Cardinality(Logged(run, "prepared")) = 1
                /\ Cardinality(Logged(run, "branch")) = 1
               THEN {"prepared"} \X Logged(run, "branch") ELSE {}

\* verifyNpmScanSourceBinding, verifyNpmPreparedSourceBinding.
SourceBound(run, source) ==
  \E evidence \in SourceEvidence(run) :
    /\ evidence[2] = source
    /\ \/ source = runs[run].head
       \/ evidence[1] = "resumed" /\ source \in Logged(run, "reserved")
       \/ /\ evidence[1] = "committed"
          /\ Parents(source) = {runs[run].head}
          /\ source \in Logged(run, "fetched")

-----------------------------------------------------------------------------
(* The scan run.  Its inputs are what was typed into the dispatch.            *)
ScanInputs ==
  [run : DOMAIN runs, stage : DOMAIN stages, source : Commits,
   sha1 : {stages[id].bytes : id \in DOMAIN stages}]

StartScan(input) ==
  /\ job.kind = "none"
  /\ job.scansDone < MaxScanJobs
  /\ job' = [job EXCEPT !.kind = "scan", !.pc = "verify", !.input = input,
                        !.scansDone = @ + 1]
  /\ UNCHANGED <<nativeVars, call, scans, runs, stages, public, receipts, coord>>

ScanJobFails == JobEnds /\ place' = IdlePlace

\* "Verify release source before setup" and runScanCi's own comparison of the
\* checkout and the release subject with the inputs.
VerifyScanSource(head) ==
  /\ job.kind = "scan" /\ job.pc = "verify"
  /\ IF /\ runs[job.input.run].state = "success"
        /\ SourceBound(job.input.run, job.input.source)
        /\ head = job.input.source
       THEN job' = [job EXCEPT !.pc = "download"] /\ UNCHANGED place
       ELSE ScanJobFails
  /\ UNCHANGED <<builds, call, scans, runs, stages, public, receipts, coord>>

\* defaultDownloadStagedTarball, else the pack fallback: the native files of
\* the publish run are placed first.
DownloadStage(found) ==
  /\ job.kind = "scan" /\ job.pc = "download"
  /\ found \/ coord.pc = "idle"
  /\ IF found
       THEN job' = [job EXCEPT !.pc = "call", !.bytes = stages[job.input.stage].bytes]
            /\ UNCHANGED place
       ELSE job' = [job EXCEPT !.pc = "native"]
            /\ BeginPlacing(job.input.source, job.input.run)
  /\ UNCHANGED <<builds, call, scans, runs, stages, public, receipts, coord>>

\* buildAndPackScanTarball: a source-built tarball stands for the stage only
\* when it has the stage's digest.
PackForScan ==
  /\ job.kind = "scan" /\ job.pc = "native"
  /\ \/ place.pc \in {"placed", "failed"} /\ ScanJobFails
     \/ /\ place.pc = "placed"
        /\ \E bytes \in Packs(job.input.source) :
             IF bytes = job.input.sha1
               THEN job' = [job EXCEPT !.pc = "call", !.bytes = bytes] /\ place' = IdlePlace
               ELSE ScanJobFails
  /\ UNCHANGED <<builds, call, scans, runs, stages, public, receipts, coord>>

CallScan ==
  /\ job.kind = "scan" /\ job.pc = "call"
  /\ Ask(job.bytes, job.input.sha1)
  /\ job' = [job EXCEPT !.pc = "gate"]
  /\ UNCHANGED <<nativeVars, scans, runs, stages, public, receipts, coord>>

\* receiptFrom, parseNpmRemoteScanReceipt, writeReceipt: only a passing verdict
\* with a scan id becomes a receipt.
WriteScanReceipt ==
  /\ job.kind = "scan" /\ job.pc = "gate"
  /\ call.pc = "done"
  /\ call' = IdleCall
  /\ receipts' = IF call.verdict = "yes"
                   THEN Append(receipts, [run |-> job.input.run, stage |-> job.input.stage,
                                          source |-> job.input.source,
                                          sha1 |-> job.input.sha1])
                   ELSE receipts
  /\ JobEnds
  /\ UNCHANGED <<nativeVars, scans, runs, stages, public, coord>>

\* A runner may be lost at any point of a job.
LoseRunner ==
  /\ job.kind # "none"
  /\ JobEnds
  /\ place' = IdlePlace
  /\ call' = IF job.pc = "gate" THEN IdleCall ELSE call
  /\ runs' = IF job.kind = "publish" THEN [runs EXCEPT ![CurrentRun].state = "failure"]
                                     ELSE runs
  /\ UNCHANGED <<builds, scans, stages, public, receipts, coord>>

-----------------------------------------------------------------------------
(* The coordinator: verify a stage, have its bytes cleared by a receipt or by *)
(* a scan of its own, approve it.                                             *)
\* compareHashSources, compareExtractedTarballs: the same digest, or the same
\* files inside another envelope.
SameShipped(local, staged) == local = staged \/ Content(local) = Content(staged)

\* verifyStagedEntry over a pack of the source on the coordinator's machine,
\* which may come out different; a payload only a machine can build is
\* verified by its structure instead (verifyStagedPlatformEntry).
LocalPacks(source, bytes) ==
  {[bytes EXCEPT !.source = source, !.env = "local", !.malware = malware] :
     malware \in BOOLEAN}
HasMachineBuiltPayload == Targets # {}
EntryVerified(source, bytes, local) == HasMachineBuiltPayload \/ SameShipped(local, bytes)

VerifyStage(stage, source) ==
  /\ coord.pc = "idle"
  /\ stages[stage].state = "staged"
  /\ \E local \in LocalPacks(source, stages[stage].bytes) :
       EntryVerified(source, stages[stage].bytes, local)
  /\ coord' = [pc |-> "verified", stage |-> stage]
  /\ UNCHANGED <<nativeVars, call, scans, runs, job, stages, public, receipts>>

\* A receipt of a scan run for this stage and the digest the registry lists.
AcceptReceipt ==
  /\ coord.pc = "verified"
  /\ \E i \in DOMAIN receipts : receipts[i].stage = coord.stage
                                /\ receipts[i].sha1 = stages[coord.stage].bytes
  /\ coord' = [coord EXCEPT !.pc = "cleared"]
  /\ UNCHANGED <<nativeVars, call, scans, runs, job, stages, public, receipts>>

\* The coordinator's own scan: the first provider of composeTarballProviders
\* that has a tarball, bound to the digest the registry lists.
CallOwnScan(tarball) ==
  /\ coord.pc = "verified"
  /\ job.pc # "call"   \* bound: one scan at a time
  /\ Ask(tarball, stages[coord.stage].bytes)
  /\ coord' = [coord EXCEPT !.pc = "scanning"]
  /\ UNCHANGED <<nativeVars, scans, runs, job, stages, public, receipts>>

\* Mutant: the coordinator goes on with a stage its scan refused.
TakeAnyVerdict ==
  /\ coord.pc = "scanning"
  /\ call.pc = "done"
  /\ call' = IdleCall
  /\ coord' = [coord EXCEPT !.pc = "cleared"]
  /\ UNCHANGED <<nativeVars, scans, runs, job, stages, public, receipts>>

TakeVerdict ==
  /\ coord.pc = "scanning"
  /\ call.pc = "done"
  /\ call' = IdleCall
  /\ coord' = IF call.verdict = "yes" THEN [coord EXCEPT !.pc = "cleared"] ELSE IdleCoord
  /\ UNCHANGED <<nativeVars, scans, runs, job, stages, public, receipts>>

\* stage approve: the registry promotes a stage that is still one, once.
ApproveStage ==
  /\ coord.pc = "cleared"
  /\ IF stages[coord.stage].state = "staged" /\ public = NoTarball
       THEN /\ public' = stages[coord.stage].bytes
            /\ stages' = [stages EXCEPT ![coord.stage].state = "approved"]
       ELSE UNCHANGED <<public, stages>>
  /\ coord' = IdleCoord
  /\ UNCHANGED <<nativeVars, call, scans, runs, job, receipts>>

GiveUpStage ==
  /\ coord.pc \in {"verified", "cleared"}
  /\ coord' = IdleCoord
  /\ UNCHANGED <<nativeVars, call, scans, runs, job, stages, public, receipts>>

-----------------------------------------------------------------------------
OwnTarballs == {NoTarball} \cup
  IF coord.stage = 0 THEN {}
  ELSE LET staged == stages[coord.stage].bytes
       IN  {staged, [staged EXCEPT !.env = "local"]}

JobStep ==
  \/ NativeStep
  \/ RetainReceipt
  \/ \E kind \in {"committed", "prepared", "resumed"} : ReserveSource(kind)
  \/ CheckPublished
  \/ PackRelease
  \/ \E outcome \in UploadOutcomes : UploadStage(outcome)
  \/ \E head \in Commits : VerifyScanSource(head)
  \/ \E found \in BOOLEAN : DownloadStage(found)
  \/ PackForScan
  \/ CallScan
  \/ WriteScanReceipt
  \/ job.pc = "gate" /\ PromiseStep /\ UNCHANGED <<nativeVars, pipelineVars>>

CoordStep ==
  \/ \E stage \in DOMAIN stages, source \in Commits : VerifyStage(stage, source)
  \/ AcceptReceipt
  \/ \E tarball \in OwnTarballs : CallOwnScan(tarball)
  \/ TakeVerdict
  \/ ApproveStage
  \/ GiveUpStage
  \/ coord.pc = "scanning" /\ PromiseStep /\ UNCHANGED <<nativeVars, pipelineVars>>

\* Bounds: a publish run begins, files are placed and native builds run while
\* the coordinator rests.
ReleaseNext ==
  \/ coord.pc = "idle" /\ \E head \in Heads : StartPublish(head)
  \/ \E input \in ScanInputs : StartScan(input)
  \/ JobStep
  \/ LoseRunner
  \/ job.pc # "native" /\ CoordStep
  \/ job.kind = "none" /\ NativeBuildStep /\ UNCHANGED <<pipelineVars, call, scans>>
  \/ ServiceStep /\ UNCHANGED <<pipelineVars, nativeVars>>
ReleaseSpec == ReleaseInit /\ [][ReleaseNext]_releaseVars

-----------------------------------------------------------------------------

\* What anyone can install was scanned: the service has finished a scan of
\* exactly these bytes and found no malware, although inspecting, scanning and
\* approving are separate calls, runs are dispatched with any inputs, and the
\* version may have been staged more than once
\* (runStaged, runScanCi, verifyStagedEntryRouted).
PublicWasScanned ==
  public # NoTarball =>
    /\ \E id \in DOMAIN scans : scans[id].finished /\ scans[id].bytes = public
    /\ ~public.malware

\* A native payload that reaches the registry has a file for every target of the
\* build matrix, all of one native build, which succeeded for the commit the
\* package was packed from or for the commit its bump was made on
\* (native-artifacts.mts).
NativesOfOneBuild ==
  \A id \in DOMAIN stages :
    LET bytes == stages[id].bytes
    IN  MatrixOf(Targets) # {} =>
          \E run \in DOMAIN builds :
            /\ builds[run].state = "success"
            /\ builds[run].sha \in {bytes.source} \cup Parents(bytes.source)
            /\ {bytes.natives[path] : path \in Destinations} \ {None}
                 = {[target |-> target, build |-> run] : target \in MatrixOf(Targets)}
=============================================================================
