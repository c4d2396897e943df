--------------------------- MODULE FleetHydration ---------------------------
(***************************************************************************)
(* Hydration of one checkout (scripts/repo/bootstrap/fleet.mjs): runs of   *)
(* ensureCurrentFleet that follow the green channel under a turn, and runs *)
(* of installFleet pinned by --ref that take no turn.  The state is what   *)
(* lives on disk between runs: the payload, the three applied markers and  *)
(* the receipt.  A run may be killed, or its install may throw, between    *)
(* any two writes.                                                         *)
(*                                                                         *)
(* Packs are numbered in the order of their creation dates, so comparing   *)
(* numbers is comparing oci.created.  A body stands for a file's bytes and *)
(* for their digest.                                                       *)
(***************************************************************************)
EXTENDS Integers, Sequences

CONSTANTS
    Proc,        \* runs
    Modes,       \* the ways a run is started, a subset of AllModes
    File,        \* payload paths
    Pack,        \* packs by creation order
    Body,        \* Body[v][f]: the bytes pack v ships at f, 0 for none
    Tombstones,  \* Tombstones[v]: the removedPaths of pack v's manifest
    Tracked,     \* payload paths that the consumer's git tracks
    Index,       \* Index[f]: the bytes of a tracked path in the git index
    Junk,        \* bytes of no pack: an edit, or a half-written file
    CodeUnitOrder, LocaleOrder,   \* the paths as toSorted() lists them, and
                                  \* as toSorted(localeCompare) does
    TTL,         \* lifetime of a receipt
    MaxClock, MaxMoves, MaxFaults, AllowLoss   \* bounds of the exploration

(* "cached" is --cached, "refresh" the default, "pinned" is --ref. *)
AllModes == {"cached", "refresh", "pinned"}

ASSUME HydrationAssumption ==
    /\ Modes \subseteq AllModes
    /\ Pack \subseteq Nat \ {0}
    /\ Junk \in Nat \ {0}
    /\ Body \in [Pack -> [File -> Nat]]
    /\ Tombstones \in [Pack -> SUBSET File]
    /\ Tracked \subseteq File
    /\ Index \in [File -> Nat \ {0}]
    /\ \A v \in Pack, f \in File : Junk # Body[v][f]
    /\ CodeUnitOrder \in Seq(File) /\ LocaleOrder \in Seq(File)
    /\ TTL \in Nat \ {0}
    /\ MaxClock \in Nat \ {0}
    /\ MaxMoves \in Nat
    /\ MaxFaults \in Nat
    /\ AllowLoss \in BOOLEAN

VARIABLES
    disk,          \* the payload files, 0 where there is none
    ref,           \* bundle-applied, 0 when absent
    appliedFiles,  \* applied-files
    manifest,      \* applied-manifest.json: path to digest, 0 for no entry
    receipt,       \* ensure-current.json
    turn, lost,    \* the lock, as InstallTurn sees it
    green,         \* the pack the green channel names
    clock,         \* Date.now(), in ticks
    pc, mode, target, latest, seen, todo, exit,   \* one run each
    moves, faults, \* moves of the channel and faults so far
    placed,        \* history: paths an install wrote and nothing removed
    muddled,       \* history: an install was cut short or overlapped another
    meddled        \* history: since the last Take, some other hand wrote here

markers == <<ref, appliedFiles, manifest>>
local   == <<mode, target, latest, seen>>
history == <<placed, muddled, meddled>>
world   == <<green, clock, moves, faults>>
turnVars == <<turn, lost>>
vars == <<disk, markers, receipt, turnVars, world, pc, local, todo, exit,
          history>>

T == INSTANCE InstallTurn

Installing == {"placing", "pruning", "finishing",
               "markRef", "markFiles", "markManifest"}
InTurn == {"reading", "resolving", "fetching", "markReceipt", "leaving"}
PC == Installing \cup InTurn \cup {"idle", "waiting"}

Ships(v) == {f \in File : Body[v][f] # 0}

(* Every pack ships mirrors that consumers do not track. *)
ASSUME PayloadAssumption == \A v \in Pack : Ships(v) \ Tracked # {}

(* preserveTracked: channel installs leave every tracked path alone. *)
Preserved(p) == IF mode[p] = "pinned" THEN {} ELSE Tracked

(* runtimeManifest, and the paths fleetPackOwnedPaths records for it. *)
Owned(p) == Ships(target[p]) \ Preserved(p)

NoReceipt == [pack |-> 0, at |-> 0]

(* isEnsureCurrentFresh *)
Fresh ==
    /\ receipt.pack # 0
    /\ receipt.at <= clock
    /\ clock - receipt.at < TTL

Listed(paths, order) == SelectSeq(order, LAMBDA f : f \in paths)

(* The two records are compared line by line, and writeAppliedFiles sorts  *)
(* by code unit what writeAppliedManifest sorts by locale.                 *)
RecordsAgree ==
    /\ appliedFiles # {}
    /\ Listed(appliedFiles, CodeUnitOrder)
          = Listed({f \in File : manifest[f] # 0}, LocaleOrder)

(* Mutant: the recorded paths only have to exist, their digests are not    *)
(* compared.                                                               *)
CompleteByPresence(d, v) ==
    /\ v # 0 /\ ref = v
    /\ RecordsAgree
    /\ \A f \in appliedFiles : d[f] # 0

(* appliedPayloadIsComplete, on the payload d *)
CompleteOn(d, v) ==
    /\ v # 0 /\ ref = v
    /\ RecordsAgree
    /\ \A f \in appliedFiles : d[f] = manifest[f]

Complete(v) == CompleteOn(disk, v)

(* repairTrackedHydration: a tracked path the records name goes back to    *)
(* its index bytes when it still carries the recorded payload, or, under   *)
(* --repair-tracked, when it is missing.                                   *)
RepairedBody(f, restoreMissing) ==
    IF disk[f] = 0
      THEN IF restoreMissing /\ f \in appliedFiles THEN Index[f] ELSE 0
      ELSE IF manifest[f] # 0 /\ disk[f] = manifest[f] THEN Index[f]
                                                       ELSE disk[f]

Repaired(restoreMissing) ==
    [f \in File |-> IF f \in Tracked THEN RepairedBody(f, restoreMissing)
                                     ELSE disk[f]]

Init ==
    /\ disk = [f \in File |-> IF f \in Tracked THEN Index[f] ELSE 0]
    /\ ref = 0
    /\ appliedFiles = {}
    /\ manifest = [f \in File |-> 0]
    /\ receipt = NoReceipt
    /\ T!TurnInit
    /\ green \in Pack
    /\ clock = 1
    /\ pc = [p \in Proc |-> "idle"]
    /\ mode \in [Proc -> {"refresh"}]
    /\ target = [p \in Proc |-> 0]
    /\ latest = [p \in Proc |-> 0]
    /\ seen = [p \in Proc |-> 0]
    /\ todo = [p \in Proc |-> {}]
    /\ exit = [p \in Proc |-> "none"]
    /\ moves = 0 /\ faults = 0
    /\ placed = {} /\ muddled = FALSE /\ meddled = FALSE

Goto(p, s) == pc' = [pc EXCEPT ![p] = s]

(* A run's end: its local state is forgotten, its exit code remembered. *)
Ends(p, code) ==
    /\ Goto(p, "idle")
    /\ exit' = [exit EXCEPT ![p] = code]
    /\ mode' = [mode EXCEPT ![p] = "refresh"]
    /\ target' = [target EXCEPT ![p] = 0]
    /\ latest' = [latest EXCEPT ![p] = 0]
    /\ seen' = [seen EXCEPT ![p] = 0]
    /\ todo' = [todo EXCEPT ![p] = {}]

(* Mutant: an install that gives up keeps its list of pending paths. *)
ReturnsUncleaned(p, code) ==
    IF mode[p] = "pinned"
      THEN Ends(p, code)
      ELSE /\ Goto(p, "leaving")
           /\ exit' = [exit EXCEPT ![p] = code]
           /\ UNCHANGED <<local, todo>>

(* Under the turn a result is returned through the finally block. *)
Returns(p, code) ==
    IF mode[p] = "pinned"
      THEN Ends(p, code)
      ELSE /\ Goto(p, "leaving")
           /\ exit' = [exit EXCEPT ![p] = code]
           /\ todo' = [todo EXCEPT ![p] = {}]
           /\ UNCHANGED local

(* A write by a run that has no turn disturbs the one that has it. *)
Meddles(p) == meddled' = (meddled \/ mode[p] = "pinned")

-----------------------------------------------------------------------------
(***************************************************************************)
(* ensureCurrentFleet up to the lock                                       *)
(***************************************************************************)

(* The repair of tracked paths runs first, without the turn; then --cached *)
(* may return at once on a fresh receipt whose payload verifies.           *)
StartEnsure(p, m, restoreMissing) ==
    /\ pc[p] = "idle"
    /\ m \in Modes \ {"pinned"}
    /\ disk' = Repaired(restoreMissing)
    /\ meddled' = (meddled \/ disk' # disk)
    /\ IF m = "cached" /\ Fresh /\ CompleteOn(disk', receipt.pack)
         THEN Ends(p, "ok")
         ELSE /\ Goto(p, "waiting")
              /\ mode' = [mode EXCEPT ![p] = m]
              /\ seen' = [seen EXCEPT ![p] = receipt.at]
              /\ exit' = [exit EXCEPT ![p] = "none"]
              /\ UNCHANGED <<target, latest, todo>>
    /\ UNCHANGED <<markers, receipt, turnVars, world, placed, muddled>>

TakeTurn(p) ==
    /\ pc[p] = "waiting"
    /\ T!Take(p)
    /\ Goto(p, "reading")
    /\ meddled' = FALSE
    /\ UNCHANGED <<disk, markers, receipt, world, local, todo, exit,
                   placed, muddled>>

(* A failed attempt is followed by a look at the receipt a peer may have   *)
(* written meanwhile.                                                      *)
PeerDone(p) ==
    /\ pc[p] = "waiting"
    /\ Fresh
    /\ mode[p] = "refresh" => receipt.at > seen[p]
    /\ Complete(receipt.pack)
    /\ Ends(p, "ok")
    /\ UNCHANGED <<disk, markers, receipt, turnVars, world, history>>

TimeOut(p) ==
    /\ pc[p] = "waiting"
    /\ Ends(p, "failed")
    /\ UNCHANGED <<disk, markers, receipt, turnVars, world, history>>

(***************************************************************************)
(* Under the turn                                                          *)
(***************************************************************************)
ReadLatest(p) ==
    /\ pc[p] = "reading"
    /\ Goto(p, "resolving")
    /\ latest' = [latest EXCEPT ![p] = receipt.pack]
    /\ UNCHANGED <<disk, markers, receipt, turnVars, world, mode, target,
                   seen, todo, exit, history>>

(* The registry does not answer: reuse the applied pack if it verifies. *)
ResolveNothing(p) ==
    /\ pc[p] = "resolving"
    /\ Returns(p, IF Complete(ref) THEN "ok" ELSE "failed")
    /\ UNCHANGED <<disk, markers, receipt, turnVars, world, history>>

RefuseRollback(p) ==
    /\ pc[p] = "resolving"
    /\ green < latest[p]
    /\ Returns(p, "failed")
    /\ UNCHANGED <<disk, markers, receipt, turnVars, world, history>>

(* Mutant: the channel's answer is not compared with the receipt. *)
ResolveAny(p) ==
    /\ pc[p] = "resolving"
    /\ target' = [target EXCEPT ![p] = green]
    /\ Goto(p, IF Complete(green) THEN "markReceipt" ELSE "fetching")
    /\ UNCHANGED <<disk, markers, receipt, turnVars, world, mode, latest,
                   seen, todo, exit, history>>

ResolveGreen(p) ==
    /\ pc[p] = "resolving"
    /\ green >= latest[p]
    /\ target' = [target EXCEPT ![p] = green]
    /\ Goto(p, IF Complete(green) THEN "markReceipt" ELSE "fetching")
    /\ UNCHANGED <<disk, markers, receipt, turnVars, world, mode, latest,
                   seen, todo, exit, history>>

(***************************************************************************)
(* installFleet                                                            *)
(***************************************************************************)
StartPinned(p, v) ==
    /\ pc[p] = "idle"
    /\ "pinned" \in Modes
    /\ Goto(p, "fetching")
    /\ mode' = [mode EXCEPT ![p] = "pinned"]
    /\ target' = [target EXCEPT ![p] = v]
    /\ exit' = [exit EXCEPT ![p] = "none"]
    /\ UNCHANGED <<disk, markers, receipt, turnVars, world, latest, seen,
                   todo, history>>

(* The fetch, the extraction or the verification fails: nothing written. *)
FetchFails(p) ==
    /\ pc[p] = "fetching"
    /\ Returns(p, "failed")
    /\ UNCHANGED <<disk, markers, receipt, turnVars, world, history>>

FetchVerified(p) ==
    /\ pc[p] = "fetching"
    /\ Goto(p, "placing")
    /\ todo' = [todo EXCEPT ![p] = Owned(p)]
    /\ muddled' = (muddled \/ \E q \in Proc \ {p} : pc[q] \in Installing)
    /\ Meddles(p)
    /\ UNCHANGED <<disk, markers, receipt, turnVars, world, local, exit,
                   placed>>

Place(p, f) ==
    /\ pc[p] = "placing"
    /\ f \in todo[p]
    /\ disk' = [disk EXCEPT ![f] = Body[target[p]][f]]
    /\ placed' = placed \cup {f}
    /\ todo' = [todo EXCEPT ![p] = @ \ {f}]
    /\ Meddles(p)
    /\ UNCHANGED <<markers, receipt, turnVars, world, pc, local, exit,
                   muddled>>

(* Mutants of StalePaths: one forgets what this pack ships, one prunes only *)
(* the tombstones, and one forgets the paths git tracks.                   *)
StaleShippedToo(p) ==
    (appliedFiles \cup (Tombstones[target[p]] \ Ships(target[p])))
        \ Preserved(p)
StaleTombstonesOnly(p) ==
    (Tombstones[target[p]] \ Ships(target[p])) \ Preserved(p)
StaleTrackedToo(p) ==
    (appliedFiles \ Owned(p)) \cup (Tombstones[target[p]] \ Ships(target[p]))

(* What the last applied record owned and this pack does not, and what the *)
(* pack's manifest tombstones and does not ship, less the preserved paths. *)
StalePaths(p) ==
    ((appliedFiles \ Owned(p)) \cup (Tombstones[target[p]] \ Ships(target[p])))
        \ Preserved(p)

StartPrune(p) ==
    /\ pc[p] = "placing"
    /\ todo[p] = {}
    /\ Goto(p, "pruning")
    /\ todo' = [todo EXCEPT ![p] = StalePaths(p)]
    /\ UNCHANGED <<disk, markers, receipt, turnVars, world, local, exit,
                   history>>

Prune(p, f) ==
    /\ pc[p] = "pruning"
    /\ f \in todo[p]
    /\ disk' = [disk EXCEPT ![f] = 0]
    /\ placed' = placed \ {f}
    /\ todo' = [todo EXCEPT ![p] = @ \ {f}]
    /\ Meddles(p)
    /\ UNCHANGED <<markers, receipt, turnVars, world, pc, local, exit,
                   muddled>>

(* Moves, segments, settings, workspace merge and adapters: all went well, *)
(* or see InstallFails.                                                    *)
FinishFiles(p) ==
    /\ pc[p] = "pruning"
    /\ todo[p] = {}
    /\ Goto(p, "finishing")
    /\ UNCHANGED <<disk, markers, receipt, turnVars, world, local, todo, exit,
                   history>>

MergeSegments(p) ==
    /\ pc[p] = "finishing"
    /\ Goto(p, "markRef")
    /\ UNCHANGED <<disk, markers, receipt, turnVars, world, local, todo, exit,
                   history>>

(* A merge refuses, or a write throws: the install returns without marks. *)
InstallFails(p) ==
    /\ pc[p] \in {"placing", "pruning", "finishing"}
    /\ faults < MaxFaults
    /\ faults' = faults + 1
    /\ Returns(p, "failed")
    /\ muddled' = TRUE
    /\ UNCHANGED <<disk, markers, receipt, turnVars, green, clock, moves,
                   placed, meddled>>

MarkRef(p) ==
    /\ pc[p] = "markRef"
    /\ Goto(p, "markFiles")
    /\ ref' = target[p]
    /\ Meddles(p)
    /\ UNCHANGED <<disk, appliedFiles, manifest, receipt, turnVars, world,
                   local, todo, exit, placed, muddled>>

(* Mutants of MarkFiles: one records the tracked paths too, and one keeps  *)
(* the previous record when there is one.                                  *)
MarkShippedFiles(p) ==
    /\ pc[p] = "markFiles"
    /\ Goto(p, "markManifest")
    /\ appliedFiles' = Ships(target[p])
    /\ Meddles(p)
    /\ UNCHANGED <<disk, ref, manifest, receipt, turnVars, world, local, todo,
                   exit, placed, muddled>>
MarkFilesOnce(p) ==
    /\ pc[p] = "markFiles"
    /\ Goto(p, "markManifest")
    /\ appliedFiles' = IF appliedFiles = {} THEN Owned(p) ELSE appliedFiles
    /\ Meddles(p)
    /\ UNCHANGED <<disk, ref, manifest, receipt, turnVars, world, local, todo,
                   exit, placed, muddled>>

MarkFiles(p) ==
    /\ pc[p] = "markFiles"
    /\ Goto(p, "markManifest")
    /\ appliedFiles' = Owned(p)
    /\ Meddles(p)
    /\ UNCHANGED <<disk, ref, manifest, receipt, turnVars, world, local, todo,
                   exit, placed, muddled>>

(* Mutant: a completed install returns without writing the receipt. *)
MarkManifestOnly(p) ==
    /\ pc[p] = "markManifest"
    /\ manifest' = [f \in File |-> IF f \in Owned(p) THEN Body[target[p]][f]
                                                     ELSE 0]
    /\ Meddles(p)
    /\ Returns(p, "ok")
    /\ UNCHANGED <<disk, ref, appliedFiles, receipt, turnVars, world, placed,
                   muddled>>

MarkManifest(p) ==
    /\ pc[p] = "markManifest"
    /\ manifest' = [f \in File |-> IF f \in Owned(p) THEN Body[target[p]][f]
                                                     ELSE 0]
    /\ Meddles(p)
    /\ IF mode[p] = "pinned"
         THEN Ends(p, "ok")
         ELSE Goto(p, "markReceipt") /\ UNCHANGED <<local, todo, exit>>
    /\ UNCHANGED <<disk, ref, appliedFiles, receipt, turnVars, world, placed,
                   muddled>>

(* writeEnsureCurrentReceipt renames a temporary file into place. *)
MarkReceipt(p) ==
    /\ pc[p] = "markReceipt"
    /\ receipt' = [pack |-> target[p], at |-> clock]
    /\ Returns(p, "ok")
    /\ UNCHANGED <<disk, markers, turnVars, world, history>>

LeaveTurn(p) ==
    /\ pc[p] = "leaving"
    /\ T!Leave(p)
    /\ Ends(p, exit[p])
    /\ UNCHANGED <<disk, markers, receipt, world, history>>

-----------------------------------------------------------------------------
(***************************************************************************)
(* The environment                                                         *)
(***************************************************************************)

(* What a kill leaves of the write that was under way: every file but the  *)
(* receipt is truncated and rewritten in place.                            *)
TornWrite(p) ==
    \/ /\ pc[p] = "placing"
       /\ \E f \in todo[p] : /\ disk' = [disk EXCEPT ![f] = Junk]
                             /\ placed' = placed \cup {f}
       /\ UNCHANGED markers
    \/ /\ pc[p] = "markRef"
       /\ ref' = 0
       /\ UNCHANGED <<disk, placed, appliedFiles, manifest>>
    \/ /\ pc[p] = "markFiles"
       /\ appliedFiles' \in SUBSET Owned(p)
       /\ UNCHANGED <<disk, placed, ref, manifest>>
    \/ /\ pc[p] = "markManifest"
       /\ manifest' = [f \in File |-> 0]
       /\ UNCHANGED <<disk, placed, ref, appliedFiles>>
    \/ UNCHANGED <<disk, placed, markers>>

Crash(p) ==
    /\ pc[p] # "idle"
    /\ faults < MaxFaults
    /\ faults' = faults + 1
    /\ TornWrite(p)
    /\ IF p \in turn THEN T!Leave(p) ELSE UNCHANGED turnVars
    /\ muddled' = (muddled \/ pc[p] \in Installing \cup {"markReceipt"})
    /\ Meddles(p)
    /\ Ends(p, "none")
    /\ UNCHANGED <<receipt, green, clock, moves>>

(* A live run's lock is retired (HydrationLock!stolen). *)
LoseTurn ==
    /\ AllowLoss
    /\ T!Lose
    /\ UNCHANGED <<disk, markers, receipt, world, pc, local, todo, exit,
                   history>>

(* An untracked payload file is deleted or edited in the checkout. *)
Drift(f) ==
    /\ f \notin Tracked
    /\ disk[f] # 0
    /\ faults < MaxFaults
    /\ faults' = faults + 1
    /\ \E b \in {0, Junk} : /\ disk' = [disk EXCEPT ![f] = b]
                            /\ placed' = IF b = 0 THEN placed \ {f} ELSE placed
    /\ meddled' = TRUE
    /\ UNCHANGED <<markers, receipt, turnVars, green, clock, moves, pc, local,
                   todo, exit, muddled>>

GreenMoves ==
    /\ moves < MaxMoves
    /\ moves' = moves + 1
    /\ green' \in Pack \ {green}
    /\ UNCHANGED <<disk, markers, receipt, turnVars, clock, faults, pc, local,
                   todo, exit, history>>

(* The wall clock, which may also be set back. *)
ClockMoves ==
    /\ clock' \in (1..MaxClock) \ {clock}
    /\ UNCHANGED <<disk, markers, receipt, turnVars, green, moves, faults, pc,
                   local, todo, exit, history>>

Ensure(p) ==
    \/ \E m \in Modes, restoreMissing \in BOOLEAN :
            StartEnsure(p, m, restoreMissing)
    \/ TakeTurn(p) \/ PeerDone(p) \/ TimeOut(p)
    \/ ReadLatest(p) \/ ResolveNothing(p) \/ RefuseRollback(p)
    \/ ResolveGreen(p) \/ MarkReceipt(p) \/ LeaveTurn(p)

Install(p) ==
    \/ FetchFails(p) \/ FetchVerified(p) \/ InstallFails(p)
    \/ \E f \in File : Place(p, f) \/ Prune(p, f)
    \/ StartPrune(p) \/ FinishFiles(p) \/ MergeSegments(p)
    \/ MarkRef(p) \/ MarkFiles(p) \/ MarkManifest(p)

Environment ==
    \/ LoseTurn \/ GreenMoves \/ ClockMoves
    \/ \E f \in File : Drift(f)

Next ==
    \/ \E p \in Proc : \/ Ensure(p) \/ Install(p) \/ Crash(p)
                       \/ \E v \in Pack : StartPinned(p, v)
    \/ Environment

Spec == Init /\ [][Next]_vars

(* What goes on where nobody pins a pack, takes a lock away or sets a clock. *)
ChannelNext ==
    \/ \E p \in Proc : Ensure(p) \/ Install(p) \/ Crash(p)
    \/ GreenMoves
    \/ \E f \in File : Drift(f)

(***************************************************************************)
(* Fairness: a run that is not killed goes on; a command that failed is    *)
(* run again, gets the lock sooner or later (HydrationLock!TurnComesRound) *)
(* and, when run often enough, finds the registry answering.  Throws and   *)
(* kills are bounded by MaxFaults, the moves of the channel by MaxMoves.   *)
(***************************************************************************)
FairSpec ==
    /\ Init /\ [][ChannelNext]_vars
    /\ \A p \in Proc :
        /\ WF_vars(StartEnsure(p, "refresh", FALSE))
        /\ SF_vars(TakeTurn(p))
        /\ WF_vars(pc[p] # "waiting" /\ (Ensure(p) \/ Install(p)))
        /\ SF_vars(ResolveGreen(p))
        /\ SF_vars(FetchVerified(p))

-----------------------------------------------------------------------------
(***************************************************************************)
(* Properties                                                              *)
(***************************************************************************)

(* Every variable has its type, and only a placing or pruning run has
   paths left to do. *)
TypeOK ==
    /\ disk \in [File -> Nat]
    /\ ref \in Pack \cup {0}
    /\ appliedFiles \in SUBSET File
    /\ manifest \in [File -> Nat]
    /\ receipt \in [pack : Pack \cup {0}, at : Nat]
    /\ turn \in SUBSET Proc /\ lost \in BOOLEAN
    /\ green \in Pack /\ clock \in Nat
    /\ pc \in [Proc -> PC]
    /\ mode \in [Proc -> AllModes]
    /\ target \in [Proc -> Pack \cup {0}]
    /\ latest \in [Proc -> Pack \cup {0}]
    /\ seen \in [Proc -> Nat]
    /\ todo \in [Proc -> SUBSET File]
    /\ \A p \in Proc : pc[p] \notin {"placing", "pruning"} => todo[p] = {}
    /\ exit \in [Proc -> {"none", "ok", "failed"}]
    /\ moves \in Nat /\ faults \in Nat
    /\ placed \in SUBSET File
    /\ muddled \in BOOLEAN /\ meddled \in BOOLEAN

(* The receipt never goes back to an older pack, whatever crashes, drifts  *)
(* or pinned installs happen and however far apart the check of the        *)
(* channel and the write of the receipt are, unless a run lost its turn    *)
(* ("refusing green-channel rollback", ensureCurrentFleet).                *)
ReceiptNeverRollsBack ==
    [][receipt'.pack >= receipt.pack \/ lost]_vars

(* Without pinned installs the applied pack never goes back either, unless *)
(* an install was cut short between its first write and its receipt or a   *)
(* run lost its turn: the receipt remembers every pack that was applied.   *)
AppliedAdvances == lost \/ muddled' \/ ref' >= ref
AppliedNeverRollsBack == []["pinned" \in Modes \/ AppliedAdvances]_vars

(* When a run that kept its turn is about to write its receipt, and nobody *)
(* else wrote to the checkout since it took the turn, the pack it names    *)
(* verifies in full: neither the prune, the tombstones nor the order of    *)
(* the markers undid what it placed (installFleet).                        *)
InstalledPackVerifies ==
    ~lost /\ ~meddled =>
        \A p \in Proc : pc[p] = "markReceipt" => Complete(target[p])

Quiet == \A p \in Proc : pc[p] \notin Installing

(* While no install is under way, every untracked file that some install   *)
(* wrote and nothing removed is in the applied-files record, so a later    *)
(* prune can find it, unless an install was cut short or overlapped        *)
(* another (writeAppliedFiles, pruneStaleFleetFiles).                      *)
RecordCoversPlaced ==
    Quiet /\ ~muddled => placed \ Tracked \subseteq appliedFiles

(* While no install is under way, a payload that verifies against the      *)
(* records is the applied pack, every untracked file of it, unless an      *)
(* install was cut short or overlapped another (appliedPayloadIsComplete). *)
PackIsWhole(v) == \A f \in Ships(v) \ Tracked : disk[f] = Body[v][f]

VerifiedPackIsWhole ==
    Quiet /\ ~muddled => (Complete(ref) => PackIsWhole(ref))

(* Nothing a channel run does changes a path git tracks, except to restore *)
(* its index bytes: not the placement, and not the prune of a record that  *)
(* a pinned install left behind (preserveTracked, repairTrackedHydration). *)
PinnedStep == \E p \in Proc : mode[p] = "pinned" /\ pc[p] \in Installing
                              /\ (todo'[p] # todo[p] \/ pc'[p] # pc[p])
TrackedPathsKept ==
    [][\A f \in Tracked : disk'[f] \in {disk[f], Index[f]} \/ PinnedStep]_vars

(* Once the channel settles on a pack that is not older than the receipt,  *)
(* the checkout comes to verify as that pack and stays so.                 *)
EventuallySynced ==
    <>[](green >= receipt.pack) => <>[](Complete(green))

(* "no verified fleet pack is available locally": it is said of no pack    *)
(* that is all there and that the records describe in full.                *)
Recorded(v) ==
    /\ ref = v
    /\ appliedFiles = Ships(v) \ Tracked
    /\ \A f \in File : manifest[f] = IF f \in appliedFiles THEN Body[v][f] ELSE 0
WholePackVerifies ==
    \A v \in Pack : Recorded(v) /\ PackIsWhole(v) => Complete(v)

==============================================================================
