---------------------------- MODULE HydrationLock ----------------------------
(***************************************************************************)
(* The ensure-current.lock directory of scripts/repo/bootstrap/fleet.mjs:  *)
(* concurrent runs of one checkout create the directory, name themselves   *)
(* in its owner file, refresh the file's mtime while they work, retire a   *)
(* directory whose owner file has not been touched for ten minutes, and    *)
(* remove their own directory at the end.  Every file-system call is a     *)
(* step of its own, because the runs are separate processes.               *)
(***************************************************************************)
EXTENDS Naturals

CONSTANTS
    Proc,          \* runs of ensureCurrentFleet (their random owner ids)
    None,          \* no directory, or no owner file
    StaleAge,      \* age of an owner file from which it is stale (6e5 ms)
    LockAttempts,  \* attempts one run makes before it gives up
    CrashAt,       \* the steps at which a run may be killed
    MaxCrashes     \* bound on the number of kills

ASSUME ConstantsAssumption ==
    /\ None \notin Proc
    /\ StaleAge \in Nat \ {0}
    /\ LockAttempts \in Nat \ {0}
    /\ MaxCrashes \in Nat

VARIABLES
    pc,       \* what each run does next
    tries,    \* acquisition attempts each run has made
    dir,      \* the run that made the directory now at the lock path
    owner,    \* the run named by the owner file at the lock path
    age,      \* time since that file's mtime, saturating at StaleAge
    crashes,  \* kills so far
    stolen    \* a directory of a live run has been retired

vars == <<pc, tries, dir, owner, age, crashes, stolen>>

Working  == {"held", "beat"}
Entering == {"own"}
Leaving  == {"release", "unlink", "rmdir"}
Idle     == {"idle", "dead"}
Waiting  == {"mkdir", "stat", "retire", "remkdir", "wait"}
Step     == Working \cup Entering \cup Leaving \cup Idle \cup Waiting

(* The steps between a successful mkdir and the end of the release. *)
Claiming == Working \cup Entering \cup Leaving

ASSUME CrashAssumption == CrashAt \subseteq Step \ Idle

Init ==
    /\ pc = [p \in Proc |-> "idle"]
    /\ tries = [p \in Proc |-> 0]
    /\ dir = None
    /\ owner = None
    /\ age = 0
    /\ crashes = 0
    /\ stolen = FALSE

Goto(p, s) == pc' = [pc EXCEPT ![p] = s]

LockUnchanged == UNCHANGED <<dir, owner, age, stolen>>

(* A new process: owner ids are random, so an id is used again only once   *)
(* nothing on disk names it.                                               *)
Invoke(p) ==
    /\ pc[p] \in Idle
    /\ p \notin {dir, owner}
    /\ Goto(p, "mkdir")
    /\ tries' = [tries EXCEPT ![p] = 0]
    /\ LockUnchanged /\ UNCHANGED crashes

(* Mutant: mkdirSync(lock, { recursive: true }) does not report EEXIST. *)
MkdirRecursive(p) ==
    /\ pc[p] = "mkdir"
    /\ tries' = [tries EXCEPT ![p] = @ + 1]
    /\ dir' = IF dir = None THEN p ELSE dir
    /\ Goto(p, "own")
    /\ UNCHANGED <<owner, age, crashes, stolen>>

(* mkdirSync(lock) at the start of an attempt: EEXIST leads to the stat.   *)
Mkdir(p) ==
    /\ pc[p] = "mkdir"
    /\ tries' = [tries EXCEPT ![p] = @ + 1]
    /\ IF dir = None
         THEN /\ dir' = p
              /\ Goto(p, "own")
         ELSE /\ Goto(p, "stat")
              /\ UNCHANGED dir
    /\ UNCHANGED <<owner, age, crashes, stolen>>

(* Mutant: the owner file is reported written although its directory is gone. *)
WriteOwnerBlindly(p) ==
    /\ pc[p] = "own"
    /\ Goto(p, "held")
    /\ owner' = p
    /\ age' = 0
    /\ UNCHANGED <<tries, dir, crashes, stolen>>

(* writeFileSync(owner) goes through the path: it fails when the directory *)
(* has been renamed away, and lands in whatever directory is there now.    *)
WriteOwner(p) ==
    /\ pc[p] = "own"
    /\ IF dir = None
         THEN Goto(p, "wait") /\ UNCHANGED <<owner, age>>
         ELSE Goto(p, "held") /\ owner' = p /\ age' = 0
    /\ UNCHANGED <<tries, dir, crashes, stolen>>

(* Mutant: a stale owner file is treated like a fresh one. *)
StatOwnerOnly(p) ==
    /\ pc[p] = "stat"
    /\ Goto(p, "wait")
    /\ LockUnchanged /\ UNCHANGED <<tries, crashes>>

(* statSync(owner).mtimeMs against the ten minutes; no owner file (ENOENT) *)
(* ends the attempt, as does a fresh one.                                  *)
StatOwner(p) ==
    /\ pc[p] = "stat"
    /\ Goto(p, IF owner # None /\ age >= StaleAge THEN "retire" ELSE "wait")
    /\ LockUnchanged /\ UNCHANGED <<tries, crashes>>

(* renameSync(lock, retired): whatever directory is at the path moves away *)
Retire(p) ==
    /\ pc[p] = "retire"
    /\ IF dir = None
         THEN Goto(p, "wait") /\ LockUnchanged
         ELSE /\ Goto(p, "remkdir")
              /\ stolen' = (stolen \/ pc[dir] \in Claiming)
              /\ dir' = None
              /\ owner' = None
              /\ age' = 0
    /\ UNCHANGED <<tries, crashes>>

(* Mutant: the takeover's mkdirSync does not report EEXIST. *)
RemkdirRecursive(p) ==
    /\ pc[p] = "remkdir"
    /\ dir' = IF dir = None THEN p ELSE dir
    /\ Goto(p, "own")
    /\ UNCHANGED <<tries, owner, age, crashes, stolen>>

(* mkdirSync(lock) of the takeover: EEXIST ends the attempt here.          *)
Remkdir(p) ==
    /\ pc[p] = "remkdir"
    /\ IF dir = None
         THEN dir' = p /\ Goto(p, "own")
         ELSE Goto(p, "wait") /\ UNCHANGED dir
    /\ UNCHANGED <<tries, owner, age, crashes, stolen>>

(* The attempt failed: sleep and try again, leave because a peer's receipt *)
(* is good enough, or give up after the last attempt.                      *)
Retry(p) ==
    /\ pc[p] = "wait"
    /\ tries[p] < LockAttempts
    /\ Goto(p, "mkdir")
    /\ LockUnchanged /\ UNCHANGED <<tries, crashes>>

PeerFinished(p) ==
    /\ pc[p] = "wait"
    /\ Goto(p, "idle")
    /\ LockUnchanged /\ UNCHANGED <<tries, crashes>>

(* Mutant: a run that gives up removes the lock it waited for. *)
TimeOutRemovesLock(p) ==
    /\ pc[p] = "wait"
    /\ tries[p] >= LockAttempts
    /\ Goto(p, "idle")
    /\ dir' = None
    /\ owner' = None
    /\ age' = 0
    /\ UNCHANGED <<tries, crashes, stolen>>

TimeOut(p) ==
    /\ pc[p] = "wait"
    /\ tries[p] >= LockAttempts
    /\ Goto(p, "idle")
    /\ LockUnchanged /\ UNCHANGED <<tries, crashes>>

(* The heartbeat reads the owner file, then sets its mtime by path.        *)
HeartbeatRead(p) ==
    /\ pc[p] = "held"
    /\ owner = p
    /\ Goto(p, "beat")
    /\ LockUnchanged /\ UNCHANGED <<tries, crashes>>

HeartbeatTouch(p) ==
    /\ pc[p] = "beat"
    /\ Goto(p, "held")
    /\ age' = IF owner = None THEN age ELSE 0
    /\ UNCHANGED <<tries, dir, owner, crashes, stolen>>

(* The hydration returns (the finally block): read the owner file, and     *)
(* remove the lock path recursively when it names this run.                *)
Finish(p) ==
    /\ pc[p] = "held"
    /\ Goto(p, "release")
    /\ LockUnchanged /\ UNCHANGED <<tries, crashes>>

ReleaseRead(p) ==
    /\ pc[p] = "release"
    /\ Goto(p, IF owner = p THEN "unlink" ELSE "idle")
    /\ LockUnchanged /\ UNCHANGED <<tries, crashes>>

ReleaseUnlink(p) ==
    /\ pc[p] = "unlink"
    /\ Goto(p, "rmdir")
    /\ owner' = None
    /\ age' = 0
    /\ UNCHANGED <<tries, dir, crashes, stolen>>

ReleaseRmdir(p) ==
    /\ pc[p] = "rmdir"
    /\ Goto(p, "idle")
    /\ dir' = IF owner = None THEN None ELSE dir
    /\ UNCHANGED <<tries, owner, age, crashes, stolen>>

Crash(p) ==
    /\ pc[p] \in CrashAt
    /\ crashes < MaxCrashes
    /\ crashes' = crashes + 1
    /\ Goto(p, "dead")
    /\ LockUnchanged /\ UNCHANGED tries

Tick ==
    /\ owner # None
    /\ age < StaleAge
    /\ age' = age + 1
    /\ UNCHANGED <<pc, tries, dir, owner, crashes, stolen>>

Acquire(p) == 
    \/ Mkdir(p) \/ WriteOwner(p) \/ StatOwner(p) \/ Retire(p) \/ Remkdir(p)
    \/ Retry(p) \/ TimeOut(p)

Heartbeat(p) == HeartbeatRead(p) \/ HeartbeatTouch(p)

Release(p) ==
    Finish(p) \/ ReleaseRead(p) \/ ReleaseUnlink(p) \/ ReleaseRmdir(p)

Next ==
    \/ \E p \in Proc : \/ Invoke(p) \/ Acquire(p) \/ PeerFinished(p)
                       \/ Heartbeat(p) \/ Release(p) \/ Crash(p)
    \/ Tick

Spec == Init /\ [][Next]_vars

(***************************************************************************)
(* Fairness.  A process that is not killed keeps executing, a hydration    *)
(* ends (each of its network calls has a timeout), time passes, and a      *)
(* command that failed is run again.  Nothing is assumed of PeerFinished,  *)
(* Crash, or the heartbeat's timeliness.                                   *)
(***************************************************************************)
FairSpec ==
    /\ Spec
    /\ WF_vars(Tick)
    /\ \A p \in Proc : /\ WF_vars(Invoke(p))
                       /\ WF_vars(Acquire(p))
                       /\ WF_vars(HeartbeatTouch(p))
                       /\ SF_vars(Finish(p))
                       /\ WF_vars(ReleaseRead(p))
                       /\ WF_vars(ReleaseUnlink(p))
                       /\ WF_vars(ReleaseRmdir(p))

-----------------------------------------------------------------------------
(***************************************************************************)
(* Properties                                                              *)
(***************************************************************************)

(* Every variable has its type, and an owner file is inside a directory.   *)
TypeOK ==
    /\ pc \in [Proc -> Step]
    /\ tries \in [Proc -> 0..LockAttempts]
    /\ dir \in Proc \cup {None}
    /\ owner \in Proc \cup {None}
    /\ age \in 0..StaleAge
    /\ crashes \in 0..MaxCrashes
    /\ stolen \in BOOLEAN
    /\ dir = None => owner = None

(* Two runs hydrate the checkout at once only after a takeover retired the *)
(* directory of a run that was still alive: acquisition, abandoned         *)
(* attempts, crashes, takeovers of dead runs and releases never let a      *)
(* second run in (acquireEnsureCurrentLock, releaseEnsureCurrentLock).     *)
MutexUnlessStolen ==
    ~stolen => \A p, q \in Proc :
                  pc[p] \in Working /\ pc[q] \in Working => p = q

(* As long as no live run was dispossessed, the directory a working or     *)
(* releasing run refreshes and removes by path is the one it made, and it  *)
(* carries its name: nothing else unlinks or overwrites it meanwhile.      *)
HolderOwnsLock ==
    ~stolen => \A p \in Proc :
                  pc[p] \in Working \cup {"release", "unlink"} =>
                      dir = p /\ owner = p

(* The lock directory protocol implements the abstract turn.               *)
Turn == INSTANCE InstallTurn
            WITH turn <- {p \in Proc : pc[p] \in Working}, lost <- stolen
ImplementsInstallTurn == Turn!TurnSpec

(* "timed out waiting for another fleet-pack hydration. Retry the          *)
(* command.": a user who keeps retrying is served, whatever died before.   *)
TurnComesRound == []<>(\E p \in Proc : pc[p] \in Working)
==============================================================================
