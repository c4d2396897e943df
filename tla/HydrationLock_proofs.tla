------------------------ MODULE HydrationLock_proofs ------------------------
(***************************************************************************)
(* Proofs about the lock directory, for every set of runs and every bound. *)
(***************************************************************************)
EXTENDS HydrationLock, TLAPS

(* The inductive invariant.  It adds to TypeOK what each step of a run     *)
(* that was not dispossessed knows of the lock path: from its successful   *)
(* mkdir to its rmdir the directory there is its own, and the owner file   *)
(* is absent before WriteOwner and after ReleaseUnlink and its own between *)
Claim(p) ==
    /\ pc[p] \in {"own", "held", "beat", "release", "unlink", "rmdir"} => dir = p
    /\ pc[p] \in {"own", "rmdir"} => owner = None
    /\ pc[p] \in {"held", "beat", "release", "unlink"} => owner = p

LockInv ==
    /\ TypeOK
    /\ \A p \in Proc : pc[p] = "mkdir" => tries[p] < LockAttempts
    /\ ~stolen => \A p \in Proc : Claim(p)

(* Idle runs and no directory satisfy the invariant. *)
LEMMA LockInvInit == Init => LockInv
<1> SUFFICES ASSUME Init PROVE LockInv
  OBVIOUS
<1>1. TypeOK
  <2>1. pc \in [Proc -> Step] /\ tries \in [Proc -> 0..LockAttempts]
    BY ConstantsAssumption DEF Init, Step, Idle
  <2>2. age \in 0..StaleAge /\ crashes \in 0..MaxCrashes
    BY ConstantsAssumption DEF Init
  <2>3. QED
    BY <2>1, <2>2 DEF Init, TypeOK
<1>2. \A p \in Proc : pc[p] = "idle"
  BY DEF Init
<1>3. QED
  BY <1>1, <1>2 DEF LockInv, Claim

(* One step per action: none disturbs the claims of the runs it leaves     *)
(* alone, because it writes the lock path only where no claim can stand.   *)
LEMMA LockInvStep == LockInv /\ [Next]_vars => LockInv'
<1> SUFFICES ASSUME LockInv, [Next]_vars PROVE LockInv'
  OBVIOUS
<1> USE ConstantsAssumption
    DEF ConstantsAssumption, LockInv, TypeOK, Claim, Step, Working, Entering, Leaving, Idle,
        Waiting, Claiming, Goto, LockUnchanged
<1>1. ASSUME NEW p \in Proc, Invoke(p) PROVE LockInv'
  BY <1>1 DEF Invoke
<1>2. ASSUME NEW p \in Proc, Mkdir(p) PROVE LockInv'
  BY <1>2 DEF Mkdir
<1>3. ASSUME NEW p \in Proc, WriteOwner(p) PROVE LockInv'
  BY <1>3 DEF WriteOwner
<1>4. ASSUME NEW p \in Proc, StatOwner(p) PROVE LockInv'
  BY <1>4 DEF StatOwner
<1>5. ASSUME NEW p \in Proc, Retire(p) PROVE LockInv'
  <2>1. CASE dir = None
    BY <1>5, <2>1 DEF Retire
  <2>2. CASE dir # None
    <3>1. stolen' \in BOOLEAN /\ (~stolen' => ~stolen /\ pc[dir] \notin Claiming)
      BY <1>5, <2>2 DEF Retire
    <3>2. TypeOK'
      BY <1>5, <2>2, <3>1 DEF Retire
    <3>3. \A q \in Proc : pc'[q] = "mkdir" => tries'[q] < LockAttempts
      BY <1>5, <2>2 DEF Retire
    <3>4. ASSUME ~stolen', NEW q \in Proc PROVE Claim(q)'
      <4>1. pc'[q] \notin Claiming
        BY <1>5, <2>2, <3>1, <3>4 DEF Retire
      <4>2. QED
        BY <4>1
    <3>5. QED
      BY <3>2, <3>3, <3>4
  <2>3. QED
    BY <2>1, <2>2
<1>6. ASSUME NEW p \in Proc, Remkdir(p) PROVE LockInv'
  BY <1>6 DEF Remkdir
<1>7. ASSUME NEW p \in Proc, Retry(p) PROVE LockInv'
  BY <1>7 DEF Retry
<1>8. ASSUME NEW p \in Proc, TimeOut(p) PROVE LockInv'
  BY <1>8 DEF TimeOut
<1>9. ASSUME NEW p \in Proc, PeerFinished(p) PROVE LockInv'
  BY <1>9 DEF PeerFinished
<1>10. ASSUME NEW p \in Proc, HeartbeatRead(p) PROVE LockInv'
  BY <1>10 DEF HeartbeatRead
<1>11. ASSUME NEW p \in Proc, HeartbeatTouch(p) PROVE LockInv'
  BY <1>11 DEF HeartbeatTouch
<1>12. ASSUME NEW p \in Proc, Finish(p) PROVE LockInv'
  BY <1>12 DEF Finish
<1>13. ASSUME NEW p \in Proc, ReleaseRead(p) PROVE LockInv'
  BY <1>13 DEF ReleaseRead
<1>14. ASSUME NEW p \in Proc, ReleaseUnlink(p) PROVE LockInv'
  BY <1>14 DEF ReleaseUnlink
<1>15. ASSUME NEW p \in Proc, ReleaseRmdir(p) PROVE LockInv'
  BY <1>15 DEF ReleaseRmdir
<1>16. ASSUME NEW p \in Proc, Crash(p) PROVE LockInv'
  BY <1>16 DEF Crash
<1>17. CASE Tick
  BY <1>17 DEF Tick
<1>18. CASE UNCHANGED vars
  BY <1>18 DEF vars
<1>19. QED
  BY <1>1, <1>2, <1>3, <1>4, <1>5, <1>6, <1>7, <1>8, <1>9, <1>10, <1>11, <1>12,
     <1>13, <1>14, <1>15, <1>16, <1>17, <1>18
     DEF Next, Acquire, Heartbeat, Release

(* What every run that was not dispossessed knows of the lock path, always *)
(* (the claims of createEnsureCurrentLock and releaseEnsureCurrentLock).   *)
THEOREM LockInvariant == Spec => []LockInv
  BY LockInvInit, LockInvStep, PTL DEF Spec

(* Type correctness of the lock model. *)
THEOREM LockTypeCorrect == Spec => []TypeOK
  BY LockInvariant, PTL DEF LockInv

(* Two live runs work at once only after a live run was dispossessed:      *)
(* whatever the number of runs, attempts, crashes and takeovers.           *)
THEOREM LockMutex == Spec => []MutexUnlessStolen
<1>1. LockInv => MutexUnlessStolen
  BY DEF LockInv, Claim, MutexUnlessStolen, Working
<1>2. QED
  BY LockInvariant, <1>1, PTL

(* A run that was not dispossessed finds its own name in its own lock,     *)
(* from the end of its acquisition to the unlink of its release.           *)
THEOREM LockOwnership == Spec => []HolderOwnsLock
<1>1. LockInv => HolderOwnsLock
  BY DEF LockInv, Claim, HolderOwnsLock, Working
<1>2. QED
  BY LockInvariant, <1>1, PTL

-----------------------------------------------------------------------------
(* Refinement: a run takes the abstract turn when its owner file is        *)
(* written, gives it back when it starts to release or dies, and the       *)
(* abstract turn is lost when a live run's directory is retired.           *)
turnBar == {p \in Proc : pc[p] \in Working}

(* Nobody works at the start. *)
LEMMA TurnRefinementInit == Init => Turn!TurnInit
  BY DEF Init, Turn!TurnInit, Working

(* A step of the lock changes who works as Take, Leave or Lose do, or not. *)
LEMMA TurnRefinementStep == LockInv /\ [Next]_vars => [Turn!TurnNext]_(Turn!turnVars)
<1> SUFFICES ASSUME LockInv, [Next]_vars
             PROVE  Turn!TurnNext \/ UNCHANGED <<turnBar, stolen>>
  BY DEF Turn!turnVars, turnBar
<1> USE DEF LockInv, TypeOK, Working, turnBar
<1>1. ASSUME NEW p \in Proc, WriteOwner(p) PROVE Turn!Take(p) \/ UNCHANGED <<turnBar, stolen>>
  <2>1. CASE dir = None
    BY <1>1, <2>1 DEF WriteOwner, Goto
  <2>2. CASE dir # None
    <3>1. turnBar' = turnBar \cup {p} /\ p \notin turnBar /\ stolen' = stolen
      BY <1>1, <2>2 DEF WriteOwner, Goto
    <3>2. stolen \/ turnBar = {}
      BY <1>1 DEF WriteOwner, Claim
    <3>3. QED
      BY <3>1, <3>2 DEF Turn!Take
  <2>3. QED
    BY <2>1, <2>2
<1>2. ASSUME NEW p \in Proc, Finish(p) \/ Crash(p) PROVE Turn!Leave(p) \/ UNCHANGED <<turnBar, stolen>>
  <2>1. turnBar' = turnBar \ {p} /\ stolen' = stolen
    BY <1>2 DEF Finish, Crash, Goto, LockUnchanged
  <2>2. QED
    BY <2>1 DEF Turn!Leave
<1>3. ASSUME NEW p \in Proc, Retire(p) PROVE Turn!Lose \/ UNCHANGED <<turnBar, stolen>>
  <2>1. turnBar' = turnBar
    BY <1>3 DEF Retire, Goto
  <2>2. stolen' \in BOOLEAN /\ (stolen => stolen')
    BY <1>3 DEF Retire, LockUnchanged
  <2>3. QED
    BY <2>1, <2>2 DEF Turn!Lose
<1>4. ASSUME NEW p \in Proc,
             \/ Invoke(p) \/ Mkdir(p) \/ StatOwner(p) \/ Remkdir(p)
             \/ Retry(p) \/ TimeOut(p) \/ PeerFinished(p)
      PROVE UNCHANGED <<turnBar, stolen>>
  BY <1>4 DEF Invoke, Mkdir, StatOwner, Remkdir, Retry, TimeOut, PeerFinished,
              Idle, Goto, LockUnchanged
<1>5. ASSUME NEW p \in Proc,
             \/ HeartbeatRead(p) \/ HeartbeatTouch(p) \/ ReleaseRead(p)
             \/ ReleaseUnlink(p) \/ ReleaseRmdir(p)
      PROVE UNCHANGED <<turnBar, stolen>>
  BY <1>5 DEF HeartbeatRead, HeartbeatTouch, ReleaseRead, ReleaseUnlink,
              ReleaseRmdir, Goto, LockUnchanged
<1>6. CASE Tick \/ UNCHANGED vars
  BY <1>6 DEF Tick, vars
<1>7. QED
  BY <1>1, <1>2, <1>3, <1>4, <1>5, <1>6
     DEF Next, Acquire, Heartbeat, Release, Turn!TurnNext

(* Every behaviour of the lock directory protocol is a behaviour of the    *)
(* abstract turn.                                                          *)
THEOREM LockImplementsTurn == Spec => ImplementsInstallTurn
<1>1. Spec => Turn!TurnInit /\ [][Turn!TurnNext]_(Turn!turnVars)
  BY TurnRefinementInit, TurnRefinementStep, LockInvariant, PTL DEF Spec
<1>2. QED
  BY <1>1 DEF ImplementsInstallTurn, Turn!TurnSpec
=============================================================================
