------------------------- MODULE RunnerResources -------------------------
(***************************************************************************)
(* The swap file of a small hosted Linux runner                            *)
(* (.github/actions/fleet/setup-and-install): how much is missing, where   *)
(* it may be written, the file's creation, its activation through sudo,    *)
(* and the cleanup after a failure.  Capacities are small numbers, an      *)
(* inode is its owner ("own" for the file this run created, "other" for    *)
(* whatever replaced it), a path of the swap table a model value.          *)
(***************************************************************************)
EXTENDS Integers, Sequences, SequencesExt, FiniteSets, FiniteSetsExt, Folds

CONSTANTS Target,       \* RESOURCE_TARGET
          SwapLimit,    \* RUNNER_SWAP_LIMIT
          Header,       \* RUNNER_SWAP_HEADER_ALLOWANCE
          Headroom,     \* DISK_HEADROOM
          Unlimited,    \* 'max', Infinity: above every capacity of the model
          Hosts,        \* the machines considered
          None,         \* nothing there, no result, no reason
          MaxForeign    \* bound: changes others make to the scratch directory

OwnPath == "ownPath"
Refused(reason) == [status |-> "refused", why |-> reason, total |-> 0]

VARIABLES host, rpc, scratch, added, swapBefore,
          file,       \* what is at the swap path: None or [ino, whole, signed]
          dir,        \* the mkdtemp directory: "absent", "own", "other"
          active,     \* the kernel's swap areas: a set of [path, bytes]
          late,       \* a sudo swapon was given up on and may still run
          rresult, foreign, torn, lost
rvars == <<host, rpc, scratch, added, swapBefore, file, dir, active, late,
           rresult, foreign, torn, lost>>

------------------------------------------------------------------------------
(* Reading the machine. *)

(* parseRunnerSwaps: a readable table has well-formed rows, none twice. *)
WellFormedSwaps(table) ==
    /\ \A i \in DOMAIN table : table[i].sane /\ table[i].used <= table[i].bytes
    /\ \A i, j \in DOMAIN table : table[i].path = table[j].path => i = j
Areas(table) == {[path |-> table[i].path, bytes |-> table[i].bytes] :
                   i \in DOMAIN table}
TotalSwap(areas) == MapThenSumSet(LAMBDA a : a.bytes, areas)

(* runnerCgroupRoot: one cgroup2 mount, of the whole hierarchy, with the     *)
(* memory controller and without limits of its own at the root.              *)
VisibleCgroupRoot(cg) ==
    /\ cg.mounts = 1
    /\ cg.wholeTree
    /\ "memory" \in cg.controllers
    /\ ~cg.rootControls

(* readRunnerCgroupLimits: the tightest of the ancestors' limits. *)
VisibleCgroup(cg) == cg.membership = 1 /\ VisibleCgroupRoot(cg)
MemoryAllowed(cg) == Min({Unlimited} \cup {a.memory : a \in cg.ancestors})
SwapAllowed(cg) ==
    Min({Unlimited} \cup {IF a.swapMax = Unlimited THEN Unlimited
                          ELSE Max({0, a.swapMax - a.swapUsed}) : a \in cg.ancestors})
EffectiveMemory(h) == Min({h.memory, MemoryAllowed(h.cgroup)})

(* selectRunnerResourceScratch: of the writable directories with a          *)
(* measurable filesystem the one with most free space, the first on a tie.  *)
Usable(h) == {i \in DOMAIN h.scratch : /\ h.scratch[i].directory
                                       /\ h.scratch[i].writable
                                       /\ h.scratch[i].measurable}
SelectScratch(h) ==
    CHOOSE i \in Usable(h) : \A j \in Usable(h) :
        \/ h.scratch[j].free < h.scratch[i].free
        \/ h.scratch[j].free = h.scratch[i].free /\ i <= j

(* runnerSwapDeficit, with the reasons it refuses for. *)
RequiredSwap(memory) == Max({0, Target - memory})
DeficitRefusal(memory, allowance) ==
    IF memory >= Target THEN None
    ELSE IF RequiredSwap(memory) > SwapLimit THEN "insufficient physical memory"
    ELSE IF allowance < RequiredSwap(memory) THEN "insufficient cgroup swap allowance"
    ELSE None
SwapDeficit(memory, swap) ==
    IF memory >= Target \/ swap >= RequiredSwap(memory) - Header THEN 0
    ELSE RequiredSwap(memory) - swap

(* validateRunnerDisk. *)
DiskHolds(free, bytes) == free - bytes >= Headroom

(* validateRunnerSwap: our directory holds our whole file. *)
OwnedSwap == dir = "own" /\ file # None /\ file.ino = "own" /\ file.whole

(* What the sizes a machine tells add up to is a number, and no machine      *)
(* comes with a swap area at the path of a file that is yet to be made.      *)
ASSUME ResourceAssumption ==
    /\ {Target, Header} \subseteq Nat
    /\ None \notin {"failed swap activation", "failed unprivileged swap allocation"}
    /\ \A h \in Hosts :
         /\ EffectiveMemory(h) \in Int /\ TotalSwap(Areas(h.swaps)) \in Int
         /\ \A i \in DOMAIN h.swaps : h.swaps[i].path # OwnPath

------------------------------------------------------------------------------
RInit ==
    /\ host \in Hosts
    /\ rpc = "limits" /\ scratch = 0 /\ added = 0 /\ swapBefore = 0
    /\ file = None /\ dir = "absent"
    /\ active = Areas(host.swaps)
    /\ late = FALSE
    /\ rresult = None
    /\ foreign = 0 /\ torn = FALSE /\ lost = {}

Fs == <<file, dir, active, late>>
Ghosts == <<foreign, torn, lost>>
StopWith(r) == rpc' = "stopped" /\ rresult' = r
Refuse(reason) == StopWith(Refused(reason))
Proceed(label) == rpc' = label /\ UNCHANGED rresult

(* prepareRunnerResources up to the memory: only on a hosted Linux runner.   *)
ReadLimits ==
    /\ rpc = "limits"
    /\ IF ~(host.linux /\ host.actions /\ host.hosted)
         THEN StopWith([status |-> "skipped", why |-> None, total |-> 0])
         ELSE IF ~VisibleCgroup(host.cgroup) \/ EffectiveMemory(host) <= 0
           THEN Refuse("hidden or invalid limits")
           ELSE Proceed("swaps")
    /\ UNCHANGED <<host, scratch, added, swapBefore, Fs, Ghosts>>

ReadSwaps ==
    /\ rpc = "swaps"
    /\ IF WellFormedSwaps(host.swaps)
         THEN Proceed("disk") /\ swapBefore' = TotalSwap(active)
         ELSE Refuse("invalid swap table") /\ UNCHANGED swapBefore
    /\ UNCHANGED <<host, scratch, added, Fs, Ghosts>>

(* freeDisk, the report, the deficit and the disk check. *)
MeasureDisk ==
    /\ rpc = "disk"
    /\ LET memory == EffectiveMemory(host)
           refusal == DeficitRefusal(memory, SwapAllowed(host.cgroup))
           need == SwapDeficit(memory, swapBefore)
       IN IF Usable(host) = {}
            THEN Refuse("no scratch") /\ UNCHANGED <<scratch, added>>
            ELSE /\ scratch' = SelectScratch(host)
                 /\ added' = IF refusal = None THEN need ELSE 0
                 /\ IF refusal # None THEN Refuse(refusal)
                    ELSE IF need = 0
                      THEN StopWith([status |-> "sufficient", why |-> None,
                                 total |-> memory + swapBefore])
                    ELSE IF ~DiskHolds(host.scratch[scratch'].free, need)
                      THEN Refuse("insufficient disk headroom")
                      ELSE Proceed("create")
    /\ UNCHANGED <<host, swapBefore, Fs, Ghosts>>

(* createRunnerResourceStorage.create and the head of createRunnerSwap: the  *)
(* measured directory is still that directory, the size and the user are     *)
(* acceptable, a fresh directory is made in it.                              *)
MakeDirectory ==
    /\ rpc = "create"
    /\ \E unchanged \in BOOLEAN :
         IF ~unchanged \/ added < Header \/ added > SwapLimit \/ host.root
           THEN Refuse("changed directory, size or identity") /\ UNCHANGED dir
           ELSE dir' = "own" /\ Proceed("open")
    /\ UNCHANGED <<host, scratch, added, swapBefore, file, active, late, Ghosts>>

(* open(O_CREAT | O_EXCL | O_NOFOLLOW): fails where something is already     *)
(* there; then nothing was created and only the directory is given up.       *)
OpenFile ==
    /\ rpc = "open"
    /\ IF dir = "own" /\ file = None
         THEN file' = [ino |-> "own", whole |-> FALSE, signed |-> FALSE] /\ Proceed("write")
         ELSE Proceed("dropDir") /\ UNCHANGED file
    /\ UNCHANGED <<host, scratch, added, swapBefore, dir, active, late, Ghosts>>

(* writeRunnerSwap: complete and synced, or short, or past its deadline. *)
WriteFile ==
    /\ rpc = "write"
    /\ \E ok \in BOOLEAN :
         /\ file' = IF ok /\ file # None /\ file.ino = "own"
                      THEN [file EXCEPT !.whole = TRUE] ELSE file
         /\ Proceed(IF ok THEN "created" ELSE "undo")
    /\ UNCHANGED <<host, scratch, added, swapBefore, dir, active, late, Ghosts>>

CheckCreated ==
    /\ rpc = "created"
    /\ Proceed(IF OwnedSwap THEN "beforeMkswap" ELSE "undo")
    /\ UNCHANGED <<host, scratch, added, swapBefore, Fs, Ghosts>>

(* createRunnerSwap's catch: the path must still hold the created inode. *)
Removable == dir = "own" /\ file # None /\ file.ino = "own"
CheckUndo ==
    /\ rpc = "undo"
    /\ IF Removable THEN Proceed("undoUnlink") ELSE Refuse("unsafe allocation cleanup")
    /\ UNCHANGED <<host, scratch, added, swapBefore, Fs, Ghosts>>

(* unlink: the kernel refuses it for an active swap file. *)
IsActive == \E a \in active : a.path = OwnPath
Unlink(next, onError) ==
    /\ IF file = None \/ IsActive
         THEN UNCHANGED <<file, lost>> /\ Refuse(onError)
         ELSE /\ lost' = lost \cup {file.ino}
              /\ file' = None
              /\ Proceed(next)
    /\ UNCHANGED <<host, scratch, added, swapBefore, dir, active, late, foreign, torn>>
UndoUnlink == rpc = "undoUnlink" /\ Unlink("dropDir", "failed undo")

(* rmdir of a directory that is not empty, or gone, fails. *)
RemoveDir(reason, onError) ==
    /\ IF dir = "own" /\ file = None
         THEN dir' = "absent" /\ Refuse(reason)
         ELSE UNCHANGED dir /\ Refuse(onError)
    /\ UNCHANGED <<host, scratch, added, swapBefore, file, active, late, Ghosts>>
DropDir == rpc = "dropDir" /\ RemoveDir("failed unprivileged swap allocation", "failed undo")

(* activateRunnerSwap: validate, mkswap, validate, swapon, verify.           *)
(* runRunnerSwapCommand gives up on a command after a minute; sudo's root    *)
(* child outlives the signal, so a swapon given up on may still take effect. *)
ValidateSwap(label, next) ==
    /\ rpc = label
    /\ Proceed(IF OwnedSwap THEN next ELSE "reread")
    /\ UNCHANGED <<host, scratch, added, swapBefore, Fs, Ghosts>>
BeforeMkswap == ValidateSwap("beforeMkswap", "mkswap")
BeforeSwapon == ValidateSwap("beforeSwapon", "swapon")

Mkswap ==
    /\ rpc = "mkswap"
    /\ \E ok \in BOOLEAN :
         /\ file' = IF ok /\ file # None THEN [file EXCEPT !.signed = TRUE] ELSE file
         /\ Proceed(IF ok /\ file # None THEN "beforeSwapon" ELSE "reread")
    /\ UNCHANGED <<host, scratch, added, swapBefore, dir, active, late, Ghosts>>

(* The kernel's swapon: a whole signed file becomes an area, without its     *)
(* header; a path that is gone or is no swap file fails.                     *)
Swappable == file # None /\ file.whole /\ file.signed
Activate == \E header \in 0..Header :
    active' = active \cup {[path |-> OwnPath, bytes |-> added - header]}
Swapon ==
    /\ rpc = "swapon"
    /\ \/ Swappable /\ Activate /\ Proceed("verify") /\ UNCHANGED late
       \/ Proceed("reread") /\ UNCHANGED <<active, late>>
       \/ late' = TRUE /\ Proceed("reread") /\ UNCHANGED active
    /\ UNCHANGED <<host, scratch, added, swapBefore, file, dir, Ghosts>>

LateSwapon ==
    /\ late
    /\ late' = FALSE
    /\ IF Swappable /\ ~IsActive THEN Activate ELSE UNCHANGED active
    /\ UNCHANGED <<host, rpc, scratch, added, swapBefore, file, dir, rresult, Ghosts>>

(* activatedRunnerSwap: our path is listed with the capacity it was given. *)
Verify ==
    /\ rpc = "verify"
    /\ \/ \E a \in active :
            /\ a.path = OwnPath /\ a.bytes >= added - Header /\ a.bytes <= added
            /\ StopWith([status |-> "activated", why |-> None,
                         total |-> EffectiveMemory(host) + swapBefore + a.bytes])
       \/ Proceed("reread")
    /\ UNCHANGED <<host, scratch, added, swapBefore, Fs, Ghosts>>

(* cleanupFailedRunnerSwap: an active file stays, one that is not listed is  *)
(* removed once it is validated again; any failure of this is reported.      *)
Unverified == "failed activation with unverified cleanup safety"
Reread ==
    /\ rpc = "reread"
    /\ \E readable \in BOOLEAN :
         IF ~readable THEN Refuse(Unverified)
         ELSE IF IsActive THEN Refuse("failed swap activation")
         ELSE Proceed("recheck")
    /\ UNCHANGED <<host, scratch, added, swapBefore, Fs, Ghosts>>
(* Mutated: the failed activation removes what is at the path, whatever it is. *)
RecheckSwapBug ==
    /\ rpc = "recheck"
    /\ Proceed("unlink")
    /\ UNCHANGED <<host, scratch, added, swapBefore, Fs, Ghosts>>

RecheckSwap ==
    /\ rpc = "recheck"
    /\ IF OwnedSwap THEN Proceed("unlink") ELSE Refuse(Unverified)
    /\ UNCHANGED <<host, scratch, added, swapBefore, Fs, Ghosts>>
RemoveFile == rpc = "unlink" /\ Unlink("rmdir", Unverified)
RemoveOwnDir == rpc = "rmdir" /\ RemoveDir("failed swap activation", Unverified)

(* Someone else's cleaner or process replaces or removes the file; torn says *)
(* that it did so after the last look before an unlink.                      *)
Foreign ==
    /\ foreign < MaxForeign /\ dir = "own" /\ ~IsActive
    /\ rpc \notin {"stopped", "limits"}
    /\ \/ file' = [ino |-> "other", whole |-> TRUE, signed |-> FALSE] /\ UNCHANGED dir
       \/ file' = None /\ dir' \in {"own", "other"}
    /\ foreign' = foreign + 1
    /\ torn' = (torn \/ rpc \in {"undoUnlink", "unlink"})
    /\ UNCHANGED <<host, rpc, scratch, added, swapBefore, active, late, rresult, lost>>

RNext ==
    \/ ReadLimits \/ ReadSwaps \/ MeasureDisk \/ MakeDirectory \/ OpenFile \/ WriteFile
    \/ CheckCreated \/ CheckUndo \/ UndoUnlink \/ DropDir
    \/ BeforeMkswap \/ Mkswap \/ BeforeSwapon \/ Swapon \/ LateSwapon \/ Verify
    \/ Reread \/ RecheckSwap \/ RemoveFile \/ RemoveOwnDir \/ Foreign

RSpec == RInit /\ [][RNext]_rvars

(* The swap file is this run's from beginning to end: an activated result    *)
(* names our own inode, brings memory and swap to the target within one      *)
(* header, and left the disk its reserve; only the inode this run created is *)
(* ever unlinked, unless it was exchanged between the last look and the      *)
(* unlink; and a refusal that claims a finished cleanup left nothing of ours *)
(* behind but an active area.                                                *)
SwapIsOwned ==
    /\ "other" \in lost => torn
    /\ rresult # None /\ rresult.status = "activated" =>
         /\ IsActive /\ file.ino = "own"
         /\ rresult.total >= Target - Header /\ rresult.total <= Target
         /\ DiskHolds(host.scratch[scratch].free, added)
    /\ rresult # None /\ rresult.why \in {"failed swap activation",
                                          "failed unprivileged swap allocation"} =>
         \/ IsActive
         \/ file = None /\ dir = "absent"

==============================================================================
