# Formal models of socket-scan-patterns

This directory holds TLA+ models of the stateful parts of this repository, the TLC
configurations that check them on small instances, and proofs, checked by TLAPS, of what
matters most for every value of the constants. Paths are relative to the repository root;
`fleet.mjs` is `scripts/repo/bootstrap/fleet.mjs`.

    tlc -workers 2 -config lock_turn.cfg MCHydrationLock.tla
    tlapm HydrationLock_proofs.tla

## 1. Inventory

The published package is small: five JSON tables of detector patterns and a loader. Around it
stand the generators that build the tables and the *fleet* tooling that this repository shares
with its siblings: a bootstrap that hydrates the checkout from a published bundle, git hooks,
GitHub Actions, and the npm publishing gates.

| component | state it keeps | operations | what is hard, and what makes it correct |
| --- | --- | --- | --- |
| Hydration lock, `fleet.mjs:13939-13999` | directory `ensure-current.lock`, its `owner` file and mtime | acquire with stale takeover, heartbeat, release | separate processes, no atomic claim-and-name, acts by path; one run at a time, a dead run never blocks for ever |
| Hydration run, `fleet.mjs:14030-14377` | payload, `bundle-applied`, `applied-files`, `applied-manifest.json`, `ensure-current.json` | repair, fast path, lock loop, resolve, rollback check, fetch, place, prune, merge, markers, receipt | a kill or a throw between any two writes, a moving channel, pinned installs that take no lock; the receipt never rolls back, records match the disk, tracked files stay |
| Bundle fetch, `fleet.mjs:11417-11900` | none | token, OCI manifest, blobs, digests | four reads of things that others change; what is written is what one manifest names, and without a pin it was green |
| Placement, `fleet.mjs:10362-10860, 208-259` | moved paths, directory mirrors, CLAUDE.md and AGENTS.md | judge, rename, rewrite references, swap, roll back | renames with gaps between them; no file of the member is lost |
| Managed files, `fleet.mjs:260-435, 810-1200, 3480-4150, 11135-12060` | regions of documents, `.gitignore`, `.gitattributes`, settings, `pnpm-workspace.yaml` | splice and merge | idempotence, the member's part kept |
| Session kernel and prepare doctor, `fetch-session.mts`, `prepare.mts` | preinstall fingerprint | run the bootstrap, repair the workspace, install, compare | inputs that change under it, or change and are put back |
| Hook entry points and push gates, `.git-hooks` | git index, refs, history, remote | scan, refuse, let through | git state moving between two commands; what is let through is what was judged |
| Canonical proof, `.git-hooks/_shared/canonical` | copies of the producer's files, receipts | trace a changed copy to signed bytes | the producer goes on; several ways to be vouched for |
| Type-check memo, `.git-hooks/_shared/typecheck-cache.mts`, `push/repo-gates.mts:363-424` | verdict files by tree key, a waiting lock | read, wait, run, write | polls three things one after the other; no verdict of another tree |
| Bounded step, `.git-hooks/_shared/run-step.sh` | a process group | run, poll, kill | ends while being killed |
| CI set-up, `.github/actions/fleet` | tool directories, swap file, exports of a job | resolve, download, verify, stage, rename; measure, create, enable, clean up; probe, plan, fall back, mint | concurrent and cancelled jobs, partial installs, failure between two steps |
| Package bootstrap, `scripts/fleet/setup` | `node_modules` before pnpm | pin, digest, firewall, download, validate, replace | look, then act on what another process changes |
| npm scan gate, staged publish, release record, `scripts/fleet/{registry,npm,release}` | scans, receipts, staged versions, ledger, native artifacts | upload, poll with retries, read NDJSON, verify, approve, abandon | late answers, check then act, partial failure over several services |
| Table generation and its gates, `scripts/repo/{gen,check}` | `data/*.json`, upstream slices, pins, licences | materialize, import, compose, compare | kills and edits between files, two gates that must agree on what they saw |
| Package loader and build, `src/` | a cache of frozen tables | load | none to speak of |

How they interact: the session kernel and the prepare doctor run `fleet.mjs --cached`, users run
it without a flag or with `--ref`, and all of them share the checkout through the lock directory,
the markers and the receipt; what a run places goes through the placement helpers and the merges.
The hooks share the checkout, the index and the refs with sessions and with each other, and the
type-check lock and cache besides. The Actions of one host share a tool cache and a disk. The
publishing gates share the registry, and the scan gate stands between a stage and its approval.

`PROJECT.json` lists every component with its status, and under `hazards` each thing that a test
would hardly reach, at its line, with the properties that would catch it.

## 2. Modules and how they are composed

| module | models | used by |
| --- | --- | --- |
| `InstallTurn` | abstract: one run at a time until a turn is lost | implemented by `HydrationLock`, used by `FleetHydration` |
| `HydrationLock` | the lock directory, call by call | run `lock_turn` |
| `FleetHydration` | a hydration run to single file writes, markers, receipt | `MCFleetHydration`, `MCHydrationRuns` |
| `PayloadFetch`, `RuleFile`, `FileMoves`, `MirrorSwap`, `ManagedText`, `WorkspaceMerge`, `PrepareDoctor` | what the steps of a hydration do, concern by concern | `MCPrepare` |
| `Placement` | what placing a payload promises of a member's files, over `FileMoves` and `MirrorSwap` | `MCPrepare`, `Prepare_proofs` |
| `TypecheckMemo` | the type-check gate of a push | `MCTypecheckMemo` |
| `HookScans` | which lines and paths a scanner reports | `GitHooks` |
| `GitHooks`, `StepRunner`, `CanonicalFork` | hooks and git, a bounded step, copies of canonical files | `MCGitHooks` |
| `ScanStream` | the NDJSON reader and the policy verdict, symbol by symbol | `ScanGate` |
| `ScanPromise` | abstract: what the scan gate promises | implemented by `ScanGate`, used by `StagedRelease` |
| `ScanGate` | one call of the gate after the other | run `scan_gate` |
| `NativeArtifacts` | native builds, receipts, placement | `StagedRelease` |
| `StagedRelease`, `ReleaseRecord` | publish and scan workflow, coordinator; direct publish and abandonment | `MCRelease` |
| `ExternalTools` | asset resolution and provenance, as operators | `ToolInstall`, `CiSetup` |
| `ZeroDepBootstrap`, `ToolInstall`, `RunnerResources`, `CiSetup` (with `SetupPlans`), `PatternTables` | the parts of a CI job | `MCCiJob` |

A run that explores several concerns has a variable `part`: each behaviour is of one part, the
other parts stand still, so the run is the union of the explorations and not their product. The
parts of one run share no state in the code either, except where a module is composed on purpose:
`StagedRelease` waits for verdicts of `ScanPromise` and packs what `NativeArtifacts` placed,
`ReleaseRecord` goes on beside `StagedRelease`, `CiSetup` and `ToolInstall` decide with
`ExternalTools`, `GitHooks` with `HookScans`.

What is still worth doing, in order: a proof of `MemberTextSurvives` (section 5 says what it needs);
the pack-index conversion of `--thin` and the repository-owned and conditional files of the install;
renames in the hooks.

## 3. The models

### InstallTurn
The promise of the lock: at most one run has the turn until a turn is *lost*, which happens when
the lock of a run that is still alive is retired. `Take`, `Leave`, `Lose`; nothing else.

### HydrationLock
One variable per piece of disk state: `dir` (the run that made the directory at the lock path),
`owner` (the run its owner file names), `age` (time since the owner file's mtime). Every
file-system call is an action of its own, because the runs are processes:

| code | actions |
| --- | --- |
| `acquireEnsureCurrentLock` / `createEnsureCurrentLock` | `Mkdir`, `WriteOwner`, `StatOwner`, `Retire` (the rename), `Remkdir` |
| lock loop of `ensureCurrentFleet` | `Retry`, `PeerFinished`, `TimeOut` |
| `refreshEnsureCurrentLock` | `HeartbeatRead`, `HeartbeatTouch` |
| `releaseEnsureCurrentLock` | `Finish`, `ReleaseRead`, `ReleaseUnlink`, `ReleaseRmdir` |

`age` counts up to `StaleAge`, the ten minutes. A path operation acts on whatever is there: a
`WriteOwner` whose directory was retired fails, or lands in its successor. `stolen` records that
the directory of a live run was retired; it can happen because the heartbeat is only a timer and
because the age is read before the rename. Owner ids are random, so `Invoke` reuses an id only when
nothing on disk names it.

### FleetHydration
State: the payload `disk`, the three markers (`ref`, `appliedFiles`, `manifest`), the `receipt`,
the `turn` of InstallTurn, the channel's pack (`green`), the `clock`, and per run a program
counter and its local variables. A pack has, for each path, the bytes it ships (`Body`) and its
`removedPaths` (`Tombstones`). Bytes are numbers and stand for their digests. Packs are numbered by
creation date. `Tracked` are the payload paths the consumer's git tracks.

| code | actions |
| --- | --- |
| `ensureCurrentFleet` up to the lock, `repairTrackedHydration`, `isEnsureCurrentFresh`, `appliedPayloadIsComplete` | `StartEnsure` (with `Repaired`, `Fresh`, `CompleteOn`) |
| lock loop | `TakeTurn`, `PeerDone`, `TimeOut` |
| resolution and rollback check | `ReadLatest`, then `ResolveNothing`, `RefuseRollback` or `ResolveGreen` |
| `installFleet` | `FetchFails`, `FetchVerified`, `Place` per file, `StartPrune`, `Prune` per file, `FinishFiles`, `MergeSegments`, `InstallFails`, `MarkRef`, `MarkFiles`, `MarkManifest` |
| receipt, `finally` | `MarkReceipt`, `LeaveTurn` |
| `--ref` | `StartPinned`, then the same install without turn or receipt |
| environment | `Crash` (with `TornWrite`: what a kill leaves of a file being rewritten), `LoseTurn`, `Drift`, `GreenMoves`, `ClockMoves` |

`Listed` keeps the order of the records: `writeAppliedFiles` sorts by code unit,
`writeAppliedManifest` by locale, and `appliedPayloadIsComplete` compares line by line. The two
orders are constants (`CodeUnitOrder`, `LocaleOrder`).

Three history variables say what the properties exclude: `placed` (what installs wrote and nothing
removed), `muddled` (an install was cut short or overlapped another), `meddled` (since the last
`TakeTurn`, somebody without the turn wrote to the checkout).

Abstracted: a completeness check reads all files at one instant; fetch, merges and placements are
their outcomes here, and the modules below open them. Left out: the git index conversion of
`--thin`, always-tracked surfaces, repository-owned and conditional files, `--from-template`,
`--bundle` and `--dry-run`.

### What a hydration does to a member's files
*PayloadFetch*: `StartFetch`, `ResolveGreen`, `PullManifest`, `PullTarball`, `PullJson`,
`WriteFetched`, `GiveUp` against `PushPack` and `MoveGreen`; every answer may be an error, a
redirect (`MaxRedirects`) or other bytes. What comes as a manifest is a body (`Body`): one of the
registry's, of the right or another pack, or one that is no manifest of it (`Altered`), and all that
follows takes revision and layers from the body that came. It is compared with the receipt of green
(`SameReceipt`) or, for a pinned pack, with nothing. Layers are a sequence, and the tarball and the
JSON manifest are found in it by media type and title (`BundleLayer`, `ManifestLayers`). The history
variable `lied` has the requests that got another body than the registry's.

*RuleFile*: `migrateFleetRuleFile` at each of the four stages that try it. `Verdict` is its
decision chain; `RenameLegacy`, `WriteRecovered`, `RenameRecovered` are its writes, `StageEffect`
what the stage itself then does to CLAUDE.md and AGENTS.md, `CrashRun` a kill. The doctor's attempt
is outside the lock and knows no preserved paths.

*FileMoves*: `Planned` and `Judged` judge every move of the list before any is made (`Judgement`
goes through the list, a function over its prefixes); `MoveOne` and `UpdateOne` then go file by file.
A file is its text, its name and the workflows it calls or waits for. *MirrorSwap*: `Stage`, `Quarantine`, `MoveAside`, `MoveIn`,
`RollBack`, `DropOld`, with an editor writing into the live directory and renames that fail.

*ManagedText*: `Spliced` (fleet block of a document), `Composed` (`.gitignore` and its owned
regions), `Cutout` (`.gitattributes`), applied again by each install. *WorkspaceMerge*: the
workspace file block by block (`MergedYaml`, `MigratedYaml`, `MergeWorkspace`), settings and hook
registrations (`MergedSettings`), and the doctor's own repair. A workspace file gives each key the
blocks under it in their order, a block the set of entries it lists: what the merges read is which
blocks a key has and which entries a block has, never where a key or an entry stands.

*PrepareDoctor*: the outer doctor, the install it starts, the inner doctor of the pipeline. Each
doctor hydrates first: `PlaceInput` (what `fleet.mjs` places), `FetchBundle`, then the workspace file
is read (`ReadSettings`, `ReadPackages`) and written (`MigrateWorkspace`, `RepairPackages`) in
separate steps. The fingerprint is read file by file (`ScanEcosystem`, `StatInput`, `ReadInput`,
`ReadPlain`) with its identity checks while an editor changes contents or replaces a folder. A file is
its text, and of the workspace file also whether it has retired keys and whether it lacks fleet
packages. Contents may return, as the fingerprint is of bytes; the history variable `putBack` has the
inputs that again became what the outer doctor had read.

### TypecheckMemo
State: the committed tree (`head`), the contents each file has had (`past`; the last is there now,
and their number stands for size and mtime, which change with every edit), the verdict files
(`cache`), the fixer `lock`, and per push a program counter and its local variables.

| code | actions |
| --- | --- |
| `scanTypeCheck` up to the cache, `readDirtyFiles`, `typecheckCacheKey`, `dirtyEntry` | `Start`, `ReadStatus`, `ReadKey` (with `Listing`, `KeyOf`), `ReadCache` |
| `runTypeCheckOnce`, `waitForTypecheckTurn` | `Acquire`, then `PollAcquire` and `PollCache` in turn (lock, cache, deadline), `ReadPeer` |
| `spawnSync` of the compiler | `TscExits`, `TscKilled`, `TscBusy` |
| `writeTypecheckVerdict` (truncate, then fill; failures swallowed) | `OpenEntry`, `FillEntry`, `WriteFails` |
| `held?.release()` | `Release` |
| `splitTypeErrorBlame` and the exit | `Decide` (with `Foreign`, `PushedRange`) |
| environment | `Edit`, `Commit` (other sessions), `Crash`, `FixerLocks`, `FixerUnlocks`, `ReclaimLock` |

`Misread` is what the code does to the first line of `git status --porcelain`: `gitLines` trims the
whole output, so a line that begins with a blank, an unstaged change, loses it, and the three
characters that `readDirtyFiles` cuts off then include the first letter of the path. `Staged` are
the files whose lines do not begin with a blank. A misread path is "missing" to the key (stamp 0)
and is not the dirty file it should be to `Decide`.

History variables: `seen` (the tree on disk when a push computed its key), `waved` (files waved
through as foreign) and `moved` (the tree changed between the listing and the key, or between the
key and the compiler).

Abstracted: the listing, the key with its `rev-parse` and stats, and the compiler's reading of the
tree are instants each; two commits with the same tree are one; untracked directories, renames and
quoted paths of the porcelain format are left out, and so is a misread path that happens to be
another file's. A push carries the commit that is HEAD when it begins. `Errors`, which files tsc
reports of a tree, is a constant. The lock's own code is not in the repository: all that is
assumed is that one caller has it at a time.

### Hooks
*HookScans* has no state: a text is a set of lines, a line its kind and the marks the filters look
at, a path the set of features the predicates test. *GitHooks* puts the scanners between git's
steps: sessions `Edit`, `Stage`, `Tag` and `Fetch`; `CommitBegin`, `PreCommit`, `FreezeTree`,
`CommitMsg`, `RecordCommit` are one commit (a cherry-pick or revert may be in progress, which exempts
it from the refusal of an empty index), with the moments at which git reads the index and the
scanners read the working tree apart; `Merge` and `Rebase`; `PushBegin`, `ScanRef` per ref,
`PushVerdict`, `Land` are one push, and `PeerPush` another machine's. A history is the sequence of
its commits. The files a commit removes are a count (`gone`) with a note whether they are merely
untracked (`benign`: ignored files still on disk, which `catastrophicDeletion` does not count). `torn`
has the texts that reached a branch without being the text a push read, the root commit's among them.

*StepRunner* is `run_step_bounded` with its polls and its two signals to the group; the leader and
the workers of the step end, hang or ignore signals as they like.

*CanonicalFork* is what a commit may make of a member's copy of one of the producer's files:
`CommitChangedCopy` accepts what `SourceAllowed`, `RecipeHolds`, `BundleMatches`,
`MergeParentMatches` or `RegionsKept` vouch for, while `ProducerCommits` (signed, unsigned or
merge), `ApplyPack`, `StartMerge` and `OtherCommit` go on. A copy is two places of a fleet region,
what is around them and whether the region is marked. A proof over several commits or hunks is the
set of copies that replaying them may give, step after step (`Replayed`, `ApplyHunk`).

Abstracted: what a regular expression spells; one tracked file and a count of the others; a merge is a
clean one, so no commit that concludes a conflicting merge passes `PreCommit`; a canonical copy has
mode 100644, the member is on the roster, and the producer's checkout is found; `git apply` is
external (a hunk in place with its context, all or nothing). Left out: the release-ledger genesis exemption, squash-history wording, oxlint's own wiring, renames in the index,
deletions of whole canonical files, and the bypass `SOCKET_PRE_COMMIT_ALLOW_CANONICAL_FORK`. Tags
are assumed never re-pointed. `run-step.sh` is sourced from a step whose other end is not in the
repository.

### Scan gate and release
*ScanPromise* says what callers of the gate may rely on: yes only of the recorded bytes, after a
finished scan of them that found no malware. *ScanGate* implements it: preflight, binding of the
tarball to the recorded digest, upload, polls with retries until the deadline (`ReadDeadline`
reads), the stream through *ScanStream*, judgement, threat leg. The service may lose answers, break
streams anywhere, cut them into any chunks and send lines out of order. The reader of *ScanStream* is
`readFullScanNdjson`: `FeedChunk` takes a chunk symbol by symbol (`Consumed`, `ConsumeSymbol`), half
records and line ends, within the limits on a line and on the whole (`ConsumeBounded`), and
`FinishStream` judges what the last line left.

*StagedRelease* has the publish run, the scan run and the coordinator of one version, with the
workflow's concurrency group; *NativeArtifacts* the builds, the receipt that names their artifacts
and the file-by-file placement (the `wasm32-wasi` platform has no row in the matrix, `MatrixOf`); *ReleaseRecord* a direct publish of the other packages and the
`abandon` command, whose every check, record and rejection is a call of its own.

Abstracted: the workspace runner, the upload and the ledger's store are not in the repository and
are a step each; bytes are their source, natives, findings and envelope.

### CI job
*ExternalTools* resolves an asset and judges its provenance, as operators over small catalogs.
*ToolInstall* is one or two jobs on one tool directory: `LookUp`, `ReadArchive`, `Request` with its
retries, `VerifyBytes`, `WriteArchive`, `BeginExtract`, `EndExtract`, `CheckStaging`,
`RenameStaging`, `CheckWinner`, `Finally`, `Recheck`, `Cancel`. *RunnerResources* goes from the
limits and the swap table to creation, activation through sudo (which may land after it was given
up; the file is looked at before each step, `ValidateSwap`) and cleanup, which looks again before it
unlinks (`RecheckSwap`). *CiSetup* takes the decisions of *SetupPlans* step by step, in the order of the
composite actions: `CheckStatus`, `InstallPnpm`, `InstallNode`, `InstallUv`, the firewall
(`InstallSfw`, `Probe`, `FallBack`, `ExportSfw`), `ResolveCache`, the payload token
(`LookUpInstallation`, `MintToken`), `InstallDependencies`, `VerifyFloor`; checkout is external, and
the runner's resources are *RunnerResources*. The renaming of a bare binary is part of the extraction;
kernel rules are taken as given; a swapon given up after 60 s may still run.

*ZeroDepBootstrap* is the bootstrap of the foundation packages with its helpers: `Look` for the
package, `ReadPin`, `ReadIntegrity`, `AskFirewall`, `Download`, `Validate`, and `RemoveInstalled`, `Removed`,
`Rename` on `node_modules`, for bootstraps of one checkout that overlap, are killed, and read pins
and lockfile that move. `shredded` has the packages of which one bootstrap deleted an installed copy.

*PatternTables* is the pipeline and its two gates: `Clone`, `ApplyMode`, `AssertTests` (slices),
`Derive`, `WriteSource`, `Compose` (generation and the drift check's own), `CompareTrees`,
`StartGate`, `Look`, kills, and edits of pins, licences, slices and data. Resolving and deriving are
one step, because that code is synchronous. What a run still has to do is a set (`todo`), taken in the
order of the code's lists (`Turn`, `Cloning`). A row is its upstream, tag, version and id. The order of
a table, its text and the translation of regular expressions are left out, and so are the
licence-registry check (one network answer per upstream) and the coverage oracle (always exit 0).

## 4. What the runs show

| run | question | bounds |
| --- | --- | --- |
| `lock_turn` | can two runs work at once, or act on a directory that is not theirs? does the lock implement the turn? does a dead run block the others for ever? | three runs, two attempts, one kill while an owner file exists |
| `hydration_runs` | receipt, records and payload under crashes, failures, drift, a moving channel and clock; and with pinned installs beside channel runs of which one loses its turn | two runs, three packs, three paths; part channel: clock 2, two moves, one fault; part overlap: green fixed, no faults (the overlapping runs are the disturbance) |
| `hydration_settles` | does the checkout converge to the green pack, and the applied pack never go back, where nothing is pinned? | one move, one fault |
| `hydration_order` (violated) | does a pack that is there and recorded in full verify? | one run, `README.md` beside `index.mts` |
| `prepare` | what do placement, merges, fetch and doctor do to a member's files? | two hydrations and a kill; nine lists of one or two moves over five paths; five names and one editor; documents of up to four lines, three installs, two merges; one fetch, one push, two bad answers; two changes under the doctor |
| `memo_tree` | does a push go by a verdict of its own tree? | two pushes, two files, one edit each, commits, a path that may be misread |
| `memo_turn` | who has the lock, may a broken commit pass, does every push end? | two processes, three pushes, a lint run that may never release, one kill, trees that stand still |
| `memo_key` (violated) | does an edit move the key? | one push after another, nothing staged |
| `scan_gate` | is a read that ends unrefused a whole answer? does the gate keep its promise? does every call end? | two tarballs, one with malware; two reads, one retry, streams of up to nine symbols |
| `release` | was what becomes public scanned, of one build, never abandoned? | two publish runs, one scan job, one build, two natives; one `abandon`, one other package |
| `hooks` | is what the hooks let through what they judged? | one file of two texts, one commit, then two pushes, one push of another machine; a step of two polls and two workers; two canonical commits, two copies |
| `cijob` | swap file, tool directory, set-up, tables, bootstrap packages | 14 machines, 4 plans of two jobs, one cancelled; 16 scenes; three upstreams, one edit, one kill; two bootstraps, one edit, one kill, seven states of the project |

Why the bounds are enough: three runs are what a takeover needs (the dead or stale owner, the run
that retires it, and the one that got in first); a second attempt lets a run come back after losing
a race. For hydration, the three packs are chosen so that one only adds a file, one drops a file,
changes one and tombstones a tracked path: together they exercise placement, prune, tombstones and
records that differ in each direction. `TTL = 1` with a clock that jumps within `1..2` puts every
comparison of the receipt's age on its edge, and lets the clock be set back. For the type-check
gate, two files are what blame needs (one that the push changes, one that this breaks), and three
versions tell apart old, fixed and half-finished; one poll before the deadline lets a waiter look at
each thing twice, three pushes are a holder, a waiter and one that comes after either; edits and
waits are explored in separate runs because the product is large and the theorems cover it.

For `prepare`, the move lists contain a chain, a swap, two moves that meet on one target, a
move onto an existing file, a retired job (also one that meets a workflow with its repair) and workflows that others call; the documents are all sequences of the marker kinds up to their
length, so every order of open, close and member lines occurs; a third install shows that the second
changed nothing. Two bad answers are one about green and one
about the pull, which is what a false pack needs to pass the comparison. Two changes are an edit and
its undoing; the doctor was also explored with three (2.3 million states, no error), and the fetch,
with one bad answer, with two fetches and two pushes. For `hooks`, a commit precedes the pushes, because a
second commit only repeats the first with another history; commits accepted by hunks applied one by
one, hunks that land elsewhere than in the patch, and recipes of two steps all occur. For `cijob`,
machines, plans, scenes and projects are an ordinary one and what differs from it in one respect;
the detector gates may overlap two at a time. In each part one kill or cancellation is enough, because
what it leaves is seen by the other process and by whatever runs after it.

### Safety
`MutexUnlessStolen`, `HolderOwnsLock` and the refinement are conditional on `stolen`, because the
code does allow a live run to be dispossessed: its heartbeat may be late by ten minutes (a
suspended laptop), and a run that read a stale age may rename a directory made since. The
properties say this is the *only* way.

`ReceiptNeverRollsBack` holds without any condition but the turn: pinned installs, crashes and
drift do not disturb it. `AppliedNeverRollsBack` (of configurations without pinned installs, so
checked by `hydration_settles`) needs more, because a pack is applied before its receipt is written: after a crash
between the two the receipt does not know the applied pack, and an older green pack is accepted.
`RecordCoversPlaced` and `VerifiedPackIsWhole` are conditional on `muddled` for the same kind of
reason: an install that stops after its first write leaves records and payload of different packs.
`InstalledPackVerifies` says what an undisturbed install achieves. `TrackedPathsKept` allows a
pinned install its writes, which are what it is for.

`VerdictFitsTree` is what remains true of "no verdict of another tree": it asks that nothing moved
and that the push's key names every dirty path; `memo_key` drops the second condition and is
violated. `HolderRunsAlone` speaks of pushes with a handle on the lock, because one that waited past
the deadline, or whose peer's verdict was torn between the poll and the read, compiles without.
`PassedCommitChecks` restricts itself to a push of its own clean commit with nothing waved through:
an error in a dirty file may be in its committed bytes as well, and the dirty set that decides it is
read again after the verdict (`repo-gates.mts:466`).

`RulesSurvive` leaves out the two ways by which the code does lose sight of rules: a rename that
moves a generated pointer over AGENTS.md (`Overtaken`), and a tracked pointer whose rules are only
in the history when a channel run seeds AGENTS.md (`Hidden`). `MovesLoseNothing` lets a retired job and
its repair stand for each other: where a workflow with the one and a workflow with the other meet at a
destination, one text stays, and only without a kill it is the repair. `ReferencesFollow` leaves out the
destinations of moves from outside the workflows. `MemberTextSurvives` is stated for
balanced markers, `InstalledToolIsPinned` for destinations that are
staged or not shared (`Guarded`), `FoundationIsPinned` for packages nobody deleted.

The scanners read the working tree while git writes the index, and the scans of a push read refs
that other sessions move. So `HookedCommitIsClean` speaks of commits recorded from the index and the
text that the hooks read (`via = "gate"`), and `PushedTipWasRead` leaves out texts that reached a
branch without being the text that was read (`torn`). `MainIsVouched`
says that every commit of main is signed by an accepted key and free of attribution unless a
published tag froze it, or came with a bypass, without a baseline or from another machine
(`entered`, `pinned`).

`FetchedIsGreen` says that what is written is the tarball and the JSON that one manifest body names.
Which body that is rests on the answers: it has been green if the answer about green was the
registry's, even when the pull was answered with other bytes; and it is a manifest of the revision
asked for if the answer to the pull was. A pinned pack has only the second: the code compares its body
with nothing, so other bytes choose the blobs.

`InstallSeesItsInputs` cannot say that the install read what was fingerprinted: an input that is
changed after the outer fingerprint, installed, and put back before the inner one leaves equal
hashes, and the inner doctor's own hydration may be what puts it back. The property says that this is
the only way (`putBack`), whatever else is written when. And unless it is the workspace file that was
put back, the installed one had been through the repairs.

### Findings
* **Records in two orders** (`hydration_order`). With names as in `.gitignore:363-364`
  (`README.md`, `index.mts`) the record sorted by `toSorted()` and the one sorted by
  `localeCompare` never agree, so a completed install never verifies: `--cached` always goes to the
  network, every run installs again, and offline a whole pack is reported as not available.
* **A misread path** (`memo_key`). `gitLines` (`git.mts:45`) trims the output of
  `git status --porcelain`. If the first line is an unstaged change, its path loses its first letter:
  editing that file no longer moves the key, so a push after a fix replays the old failure, and
  errors in it are blamed on pushes that do not carry it (the same set feeds `splitTypeErrorBlame`).

### Observations without a run
Seen while modelling; the properties are stated so that they hold beside them.

* Lock: a kill between `mkdirSync` (`fleet.mjs:13943`) and the write of the owner file (13944) leaves
  a directory that nobody can enter or retire, because staleness is read from the missing file.
  `TurnComesRound` is stated for kills elsewhere.
* Markers: `writeAppliedRef` comes before the list and the manifest; a kill between them can make an
  incomplete pack verify, if the packs differ by a file the old list does not have.
* Type-check gate: a waiter asks for the lock before it looks at the cache, so concurrent pushes of
  one tree compile it one after the other; and the key is computed before the wait, so a verdict can
  be stored for the tree before an edit.
* Managed documents: the comment at `fleet.mjs:539` says that an unclosed open marker is never
  half-rewritten, but `spliceFleetBlock` appends a block after it and the next install deletes the
  member's lines between. Installing composes away the marker that ended a legacy ignore list, so a later refresh
  takes member lines up to the next comment. `isManagedGitignoreResult` can never be true.
* Workspace file: fleet keys whose lists stand at column 0, are scalars or hold only comments are
  replaced whole; the configuration is written before a merge that then fails ("Nothing written");
  a member's patch of a package the fleet patches, and hooks not under `hooks/repo`, are dropped;
  a flow-style or commented `packages:` gets a second key.
* Placement: a kill between the renames and the updates leaves references that are never rewritten,
  and a retired job where the member had its repair already: two workflows that would be equal after
  the rewriting count as one and the repaired one may be the one removed, before the other is
  rewritten. A file moved in from outside the workflows is not read for references to what moves with it. A
  kill between the two renames of a mirror leaves no live directory, and the next run skips it.
  Symbolic links and `node_modules` in a mirrored directory are neither copied nor quarantined.
* Fetch: a body cut off after its headers never settles (no `error` handler on the response). The
  manifest body of a pinned pack, and of an index's sub-manifest there, is compared with nothing
  (`fleet.mjs:11754-11771`, without `expectedReceipt`): neither its revision nor a digest.
  `planFetch` runs the bootstrap whenever `fleet.mjs` exists, though its header says it does nothing
  when the payload is there.
* Doctor: `pnpm-lock.yaml` and `.npmrc` are not in the fingerprint. An edit that the install has
  read and that is undone before the inner fingerprint is not seen; the inner doctor undoes it itself
  where its hydration (`prepare.mts:906`, before 914) restores a mirror or a dropped fleet package.
  The workspace file is read (829), an import awaited, and what was read then written (838), so an
  edit in between is lost.
* Hooks: staged files are listed with `--diff-filter=ACM` (`pre-commit.mts:808`), so a file renamed
  with edits is in no content scan, although the comment below says that what is left are deletions
  and merges; `commit-msg` says that it runs under `--no-verify`, which git does not do; a commit of
  deletions only skips the signing check; a bundle match asks for mode 100644 whatever the
  producer's mode is.
* Scan gate: the comment at `run.mts:760` says every alert blocks approval; only malware of the
  actions error and warn does.
* CI: uv is extracted in place into the shared tool cache and only `-x` is looked at, so a cancelled
  extraction leaves a partial uv that later jobs accept; a thin member without the tools file cannot
  get past uv or the firewall, and the legacy firewall shape not past the resolver; a component in
  an unknown state gives a warning and the status operational.
* Bootstrap packages: a package that is there is accepted whatever its version, and one that is
  declared only as an optional or peer dependency outside the catalog is declared but never pinned,
  so the bootstrap fails (`isDeclaredDependency` reads four fields, `fromPackageJson` two).
* Tables: nothing compares a slice with its pin, though `upstream-slice.mts:2` says that one off its
  pin fails; the licence of a row comes from another map than the one the registry check tells to
  correct; the "skipped" message of that check can never print; a path-gated row loses the flags of
  its path pattern; ids of one importer restart per module, so two modules with one code collide.

### Liveness and fairness
`lock_turn`: a run that is not killed keeps executing (weak fairness of its steps), a hydration
ends because each network call has a timeout (`Finish`; strong fairness because the heartbeat
interrupts it), time passes, and a command that failed is run again. Nothing is assumed of the
heartbeat's timeliness, of kills or of peers.

`hydration_settles` (`FairSpec`, over the steps of channel runs and their environment): a run goes
on; waiting for the turn succeeds in the end, which is what `lock_turn` shows; and a user who runs
the command again finds the registry answering (`ResolveGreen`, `FetchVerified`) infinitely often.
The property assumes in its premise that the channel settles on a pack that is not older than the
receipt; if the channel stays behind, refusing is what the code should do. It is checked on payloads
whose two record orders agree: on others it fails, which is the first finding.

`memo_turn`: a push that is not interrupted keeps executing and its compiler ends (weak fairness of
its own steps). Nothing is assumed of the lock's other holders, which is the point: the deadline
alone makes every push end.

`scan_gate`: weak fairness of the gate's own steps, each of which has a timeout in the code. Nothing
is assumed of the service: it may never finish a scan and break every stream; retries and deadline
end the call. The bound is the number of reads and retries, which are two constants of the code.

## 5. What is proved

Eight modules hold theorems: `HydrationLock_proofs`, `FleetHydration_proofs`, `Prepare_proofs` (for
`RuleFile`, `FileMoves`, `MirrorSwap`, `WorkspaceMerge`, `PayloadFetch`, `PrepareDoctor`),
`TypecheckMemo_proofs`, `Hooks_proofs` (for `GitHooks`, `StepRunner`, `CanonicalFork`),
`ScanGate_proofs`, `Release_proofs` (for `StagedRelease` and `ReleaseRecord`) and `CiJob_proofs` (for
`ToolInstall`, `RunnerResources`, `ZeroDepBootstrap`, `CiSetup`, `PatternTables`).

All proofs are for arbitrary sets of runs, packs, paths, texts and processes, and arbitrary bounds.
They rest on the named assumptions of the modules, which TLC evaluates in the runs of those modules:

* Bounds are naturals: `ConstantsAssumption`, `CrashAssumption`, `StepConstants`, `ReachAssumption`,
  `MaxShrinkAssumption`, `NativeBounds`, `ReleaseBounds`, `RecordBounds`, `StreamLimits`, `GateBounds`,
  `ScanBound`.
* Constants have the shape that the code gives them: `HydrationAssumption` (packs are positive numbers
  with their bodies and tombstones), `RulesAssumption` (a rule text is none of the named forms),
  `NamesAssumption`, `HookConstants`, `FetchConstants` (an index names a manifest, the words for a bad
  answer are no digests, other bytes have another digest), `NoneIsNoFile`, `FoundationAssumption` (the
  package list is a sequence),
  `PathsAssumption`, `TreesAssumption` and `MovesAssumption` (workflows are paths, a tree has a file
  or none at each, a list is a sequence of moves), `PackagesAssumption` and `SettingsAssumption` (the
  doctor has packages to see to, and the fleet's settings carry their markers, without which
  `fleetSettingsKeys` refuses them), `CanonicalConstants` (texts of the fleet's are not the member's
  own, a recipe is a sequence of steps), `UpstreamAssumption` (every upstream is in the order).
* A few say something of the world. `PayloadAssumption`: a pack ships a file that the consumer does
  not track. `BumpAssumption`: a bump is a commit made on the head it bumps. `PlanAssumption`: a
  staging directory, whose name is random, is nobody's destination, and every plan has a pin.
  `SceneAssumption`: finitely many versions are published, and in a catalog the two flavours of the
  firewall name different assets. `WorkspaceAssumption`: a workspace file lists its patches once and
  gives the retired flags as scalars.
  `ResourceAssumption`: limits and sizes are integers, and no host has a swap area at this run's own
  random path to begin with.

One theorem has a hypothesis that not every configuration meets. `InstalledVerifies` asks that the
two sort orders list the recorded paths alike (`RecordOrdersAgree`); without it the statement is
false, which is the first finding.

### Hydration

| theorem | says | argument |
| --- | --- | --- |
| `LockTypeCorrect`, `LockMutex`, `LockOwnership` | `[]TypeOK`, `[]MutexUnlessStolen`, `[]HolderOwnsLock` | `LockInv`: while nothing is stolen, each run between its `mkdir` and its `rmdir` is the maker of the directory, and the owner file is absent, its own, or absent again according to its step. Mutual exclusion alone is not inductive: without the steps before the owner file is written and after it is unlinked, a second run could be between them |
| `LockImplementsTurn` | the lock implements InstallTurn, `turn` being the set of working runs and `lost` being `stolen` | `WriteOwner` is `Take`, `Finish` and a kill are `Leave`, `Retire` of a live run's directory is `Lose`, the rest stutters; `LockInv` gives the guard of `Take` |
| `HydrationTypeCorrect` | `[]TypeOK` of FleetHydration | `TypeInv` adds that a run that installs has a pack to install; without it placing a file could read the bytes of no pack |
| `ReceiptMonotonic` | `ReceiptNeverRollsBack` | `ReceiptInv`: a channel run past the lock has the turn (`TurnInv`); the turn is exclusive while none is lost; so the receipt a run read is still the receipt, and its target is not older. The check and the write are many steps apart, and only exclusivity joins them |
| `InstalledVerifies` | `[]InstalledPackVerifies` | `InstallInv`, over `ReceiptInv`: what is on disk and in the records is, for each phase of an install, the target's as far as the phase has come (`InstalledSoFar`), unless the turn was lost or another hand wrote. `PayloadAssumption` and `RecordOrdersAgree` make the finished records pass the comparison |
| `PlacedIsRecorded`, `VerifiedIsWhole` | `[]RecordCoversPlaced`, `[]VerifiedPackIsWhole` | `RecordInv`: while nothing is muddled there is one install at most, what was placed is in the old record or the new one (`RecordedSoFar`), and when no run is installing the three markers are of one pack (`AppliedRecord`). Both properties are about quiet states; the invariant has to follow the markers through the three writes in between |
| `TrackedStayTracked` | `TrackedPathsKept` | `PreserveInv`: no channel run has a tracked path left to place or to prune, though the record it prunes by may have been written by a pinned install that placed it |
| `AppliedMonotonic` | `AppliedNeverRollsBack` | `AdvanceInv`: the applied marker is ahead of the receipt only while the run that put it there is on its way to the receipt |

### A member's files

| theorem | says | argument |
| --- | --- | --- |
| `RulesNeverLost` | `RulesSurvive` | neither the lock nor the depth of the history search is used: CLAUDE.md never becomes authored again, AGENTS.md never goes away, and a seed waits for an authored tracked CLAUDE.md (`RuleInv`: `SourceTracked`, `RenameReady`, `RecoverReady`, `SeedWaits`). What a run judged still holds when it acts, whoever acted in between |
| `MirrorLosesNothing` | `[](MirrorKeepsLocal /\ SwapIsComplete)` | `MirrorInv`: what was listed is out of every later run's reach (`Settled`: in the quarantine or in a directory that a killed run left), or where this run will not lose it (`InHand`): which of the live directory, the copy and the old directory has it changes with every rename. An edit may overtake what was listed, so both are said of the listed file or of the edited one (`Holds`); `Undisturbed` has the exact contents for a swap without edits |
| `PlacementAlwaysKeeps` | `[]PlacementKeepsFiles` | `MovesInv`, beside `MirrorLosesNothing`: the moves still planned are of different sources, and of different destinations unless workflows meet (`AllApart`: what `Judged` refuses, for a list of any length, by a least counterexample); their ends are still files (`Fit`); a destination that is taken holds the same content, or what the run will write there (`Meets`); what is to be written is a text of the tree or its repair (`Writes`), and whatever still refers to an old name is to be written or moved (`NamesFollowed`). A list is judged before any of it is made, and this is what makes the verdict still true when a move is |
| `EntriesAlwaysKept` | `[]EntriesAreKept` | `MergeInv`: what is said of the workspace file on disk is said of the migrated one that a merge holds in memory (`FileInv`), because a doctor that dies leaves that one behind; every own entry is listed where entries are told apart (`Lists`) or gives way for a reason that lasts (`GivesWay`: exempted, patched by the fleet, found unused once); and after a merge no block lists a patch of an unused package (`NoPatchOf`), which an edit of another key or a repair does not undo |
| `FetchedWasGreen` | `[]FetchedIsGreen` | `FetchInv`: a receipt taken from a genuine answer is of a body that was green when it was resolved (and having been green lasts); a pulled body with the digest of the receipt is that body (`DigestTells`), whatever answered the pull; and each blob is what the pulled body names. So four reads at four times are of one body |
| `InstallMatchesFingerprint` | `[]InstallSeesItsInputs` | `DoctorInv`: once the install has read an input otherwise than the outer fingerprint, and as long as it is not put back, neither the file there nor the inner fingerprint is what the outer one read (`OthersStay`), so the comparison fails. A workspace file that is to be repaired is not what the inner doctor's hydration leaves (`RepairsShow`). No assumption on any constant |

### Hooks

| theorem | says | argument |
| --- | --- | --- |
| `MemoTypeCorrect` | `[]TypeOK` of TypecheckMemo | one step per action |
| `MemoHolderRunsAlone`, `MemoNothingLeftHeld` | `[]HolderRunsAlone`, `[]NothingLeftHeld` | `LockInv`: a handle means the lock and a running push, and a push's lock is matched by its handle until it dies. Neither property is inductive alone: releasing by handle is safe only because a handle implies the lock |
| `MemoVerdictFitsTree` | `[]VerdictFitsTree` | `MemoInv`: every stamp in a key is that of a content the file has had, so the tree a well-named key describes (`TreeOf`) never changes again, whatever is edited (`EditKeepsKeys`); entries, hashed trees and verdicts all agree with it while nothing moved. `KeyFitsDisk` is where a misread path would break it |
| `MemoPassedChecks` | `[]PassedCommitChecks` | `PassInv`, over `MemoInv`: a push decides on a verdict of the tree it hashed (`DecidePasses`), and one that passes with nothing waved through has found that tree without errors (`PassedClean`); with its own commit clean in the checkout that tree is the commit's. What it went by does not change afterwards |
| `MainAlwaysVouched` | `[]MainIsVouched` | `VouchInv`: what main, this clone's `tracking`, the old tips of the push and a push already let through reach is vouched for. The gate judges only the commits between an old tip and the new one, so each of these bases has to be sound when it is used; tags never move (`TagInv`), so what one froze stays frozen |
| `PushedTipsWereRead` | `[]PushedTipWasRead` | `ReadInv`: the same for texts. Only the tips are claimed: a scan reads what changed since the base, and a base is a tip itself |
| `HookedCommitsAreClean` | `[]HookedCommitIsClean` | `CleanInv`: cleanness is of every history the clone or the remote has, since fetches, merges and rebases bring them back; the commit being made is followed from what `PreCommit` read to what `RecordCommit` writes (`CommitJudged`) |
| `StepFailureIsSeen` | `[]StepFailureBlocks` | `StepInv`: a step ends in one of three ways, and what the runner has noted fits the way (`Endings`) |
| `ForkAlwaysVouched` | `ForkedTextIsVouched` | an action property: no invariant but the types is needed, the work is in what each proof accepts. A copy that comes out of a replay of any number of signed commits has in each place a text that these replace the old one by (`Becomes`: it is in every set of texts that they do not leave); a recipe, a pack and the producer's own layer put vouched texts (`VouchedCopies`); the marks stay |

### Scan gate and release

| theorem | says | argument |
| --- | --- | --- |
| `EvidenceIsWhole` | `[]StreamIsEvidence` | `ReadSoFar`: the reader is in the state that reading the text up to here, line by line, leads to (`ReadsTo`), whatever the chunks were; that state is determined by the complete lines and the open one. The number of symbols of a chunk and of lines of a text is induction over Nat (below) |
| `GateImplementsPromise` | `ImplementsScanPromise` | every step of the gate is a step of ScanPromise or a stutter. `GateInv` carries the bytes and the scan through the call: what is bound is what was asked about (`BoundBytes`), the scan asked is of these bytes (`AskedScan`), an answer is of the scan in its present state (`Answered`), and a gate that has left the stream with a yes has a finished scan without malware (`ClearedScan`, by `EvidenceIsWhole`'s lemmas) |
| `PublicIsScanned` | `[]PublicWasScanned` | `CallInv` and `ClearInv`: whose verdict is awaited is whose bytes were asked about, in both users of the gate, and every receipt, clearance and public version is of bytes that are `Cleared`. A stage may be approved long after its verdict; what lasts is that a finished scan is never undone (`GateScansGrow`, `ClearedStays`) |
| `NativesAreOfOneBuild` | `[]NativesOfOneBuild` | `PlaceInv`, `PublishInv`, `StageInv`: a target not in `todo` has its file from the receipt's build, no two targets share a path, and the source only moves on to a bump of the head (`BumpAssumption`), so what is packed later is still of the build that was placed for its parent |
| `ReleaseTypeCorrect` | `[](TypeInv /\ RecordTypes)` | one step per action |
| `NothingAbandonedIfPublic`, `RejectedOnceRecorded` | `NoneAbandonedIfPublic`, `RejectedAfterRecorded` | `RecordInv`: a command that records found nothing public, and one that rejects has recorded every name; lost answers and a second command in between add to the ledger only |

### CI job

| theorem | says | argument |
| --- | --- | --- |
| `InstalledTools` | `[]InstalledToolIsPinned` | `ToolInv`: a job that extracts has verified bytes (`AtWork`), a staging directory about to be renamed is whole (`StagedWhole`), and a destination that only renames reach has a whole tool of one of its jobs' pins (`Published`) or its only writer knows how far it is (`Alone`). Cancelling may stop any of them anywhere |
| `SwapAlwaysOwned` | `[]SwapIsOwned` | `SwapInv`: an active area at the own path is this run's, also when a `swapon` given up takes effect late (`AreaIsOurs`); what an unlink finds is the run's own or was put there after the last look (`UnlinkIsOurs`); the size is the deficit of the limits read before (`SizeIsDeficit`) |
| `FoundationAlwaysPinned` | `[]FoundationIsPinned` | `ZInv`: a bootstrap carries a pin, a digest and a tarball that agree (`Carries`), although it read them one after the other from files that change; copies appear only by its rename and go only into `shredded` (`PlacingStep`), and what a bootstrap has passed is still there (`Passed`) |
| `SetupAlwaysCoherent` | `[]SetupIsCoherent` | `SetupInv`: the firewall that is probed, replaced by its free flavour and exported is at each step the catalog's of its flavour (`SfwFits`), what is exported is what it was measured to be, pnpm is the newest version published that fits, a token is there only as granted, and a job that is ready met the floor. The decision, the fallback and the export are steps apart, with a probe in between that may fail |
| `TablesAlwaysVouched` | `[]TablesAreVouched` | `TablesInv`: a generation that nobody disturbs has, as far as it has come, written what its upstreams say (`SourcesMade`) and composed its tables of that (`TablesMade`), and so has the drift check in its own directory (`FreshTrue`, `DriftTrue`); what the gate no longer has to look at does not offend (`GateTrue`), and a slice the materializer is through with holds tests only (`MaterialTrue`). `still` has who was not disturbed: any write of one process ends the claims of the others |

### What stays with TLC

* Liveness (`TurnComesRound`, `EventuallySynced`, `PushEnds`, `ScanEnds`): it needs fairness and
  ENABLED, which the prover does not handle.
* `MemberTextSurvives`, the half of `SharedFilesKept` about documents, `.gitignore` and
  `.gitattributes` (the other half is `EntriesAlwaysKept`). It says that lines keep their order and
  number and that a second install writes what it finds, of splices that cut a sequence of lines at
  places found by scanning it. A proof has to say what scanning a concatenation finds, for every
  operator that scans, by an induction over the lines for each.

The library's induction theorems take an operator as a parameter, which no installed prover can
instantiate. Induction over the naturals is still possible for a set one names: `WFMin` and the
well-foundedness of `<` give a least counterexample, which is how `ScanGate_proofs` reads streams of
any length (`SetInduction`). RECURSIVE operators are used nowhere.

## 6. Not modelled

* The loader and the build script (a memo of frozen tables; sequential calls of build tools), the
  workflow files but for `publish-npm.yml`, and the bundled third-party code of `fleet.mjs` (1657-3480,
  4150-9100, 12060-13300), which is not this repository's logic.
* Of the hydration run: the git index conversion of `--thin`, conditional and repository-owned files,
  always-tracked surfaces, adapters for the harnesses, `--bundle`, `--from-template`, `--dry-run`,
  launchers and read-only bits.
* Of the hooks: what the regular expressions spell, and the points listed under *Hooks* above.
* Of CI: shims, the Homebrew bundle, saving the pnpm cache, the text of summaries.
* Of the publishing gates: the workspace runner, the upload, the ledger store and the threat scanner
  are outside the repository and stand for their outcomes.
* Of the tables: rendering, order and text of rows, translation of regular expressions, the
  licence-registry check and the coverage oracle.
