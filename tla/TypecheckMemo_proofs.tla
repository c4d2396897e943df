------------------------- MODULE TypecheckMemo_proofs -------------------------
(***************************************************************************)
(* Proofs about TypecheckMemo: its types, who has the fixer lock, and that *)
(* a push goes by a verdict of its own tree, for any number of pushes,     *)
(* files, contents and edits.                                              *)
(***************************************************************************)
EXTENDS TypecheckMemo, TLAPS

(* What the compiler says has the type of a verdict and is never the       *)
(* failure that stands for a killed or refused compiler.                   *)
LEMMA TypeCheckIsVerdict ==
  ASSUME NEW t \in Tree
  PROVE  TypeCheck(t) \in Verdict /\ TypeCheck(t) # Failed
  BY ConstantsAssumption DEF TypeCheck, Verdict, Failed

(* What is on disk, listed and hashed has its type.                        *)
LEMMA ReadsTyped ==
  ASSUME TreeOK
  PROVE  /\ Disk \in Tree /\ Dirty \subseteq File /\ Misread \subseteq Dirty
         /\ Listing \in [dirty : SUBSET File, misread : SUBSET File]
         /\ \A l \in [dirty : SUBSET File, misread : SUBSET File] : KeyOf(l) \in Key
<1>1. \A f \in File : /\ Len(past[f]) \in Nat \ {0} /\ Body(f) \in Version
  BY DEF TreeOK, Body
<1>2. Disk \in Tree /\ Dirty \subseteq File /\ Misread \subseteq Dirty
  BY <1>1 DEF Disk, Tree, Dirty, Misread
<1>3. Listing \in [dirty : SUBSET File, misread : SUBSET File]
  BY <1>2 DEF Listing
<1>4. \A l \in [dirty : SUBSET File, misread : SUBSET File] : KeyOf(l) \in Key
  BY <1>1 DEF TreeOK, KeyOf, Key
<1>5. QED
  BY <1>2, <1>3, <1>4

(* Storing an entry of the right type keeps the type of the cache.         *)
LEMMA StoreTyped ==
  ASSUME SharedOK, NEW k \in Key, NEW e \in Verdict \cup {Torn}, Store(k, e)
  PROVE  /\ DOMAIN cache' \subseteq Key
         /\ \A x \in DOMAIN cache' : cache'[x] \in Verdict \cup {Torn}
  BY DEF SharedOK, Store

LEMMA TypeInit == Init => TypeOK
<1> SUFFICES ASSUME Init PROVE TypeOK
  OBVIOUS
<1>1. head \in Tree
  BY ConstantsAssumption DEF Init
<1>2. TreeOK
  BY <1>1 DEF Init, TreeOK, Tree
<1>3. SharedOK
  BY DEF Init, SharedOK
<1>4. Failed \in Verdict /\ NoKey \in Key
      /\ NoListing \in [dirty : SUBSET File, misread : SUBSET File]
  BY ConstantsAssumption DEF Failed, Verdict, NoKey, Key, NoListing
<1>5. PushOK
  BY <1>4, ConstantsAssumption DEF Init, PushOK, PC, Ended
<1>6. pushes \in 0..MaxPushes /\ crashes \in 0..MaxCrashes
  BY ConstantsAssumption DEF Init
<1>7. moved \in BOOLEAN
  BY DEF Init
<1>8. QED
  BY <1>2, <1>3, <1>5, <1>6, <1>7 DEF TypeOK

(* One step per action.                                                    *)
LEMMA TypeStep == TypeOK /\ [Next]_vars => TypeOK'
<1> SUFFICES ASSUME TypeOK, [Next]_vars PROVE TypeOK'
  OBVIOUS
<1> USE DEF TypeOK
<1>0. Failed \in Verdict /\ NoKey \in Key
      /\ NoListing \in [dirty : SUBSET File, misread : SUBSET File]
  BY ConstantsAssumption DEF Failed, Verdict, NoKey, Key, NoListing
<1>1. ASSUME NEW p \in Proc, Start(p) PROVE TypeOK'
  <2>1. TreeOK' /\ SharedOK'
    BY <1>1 DEF Start, tree, shared, TreeOK, SharedOK
  <2>2. PushOK'
    BY <1>0, <1>1, ConstantsAssumption
    DEF Start, Goto, PushOK, TreeOK, PC
  <2>3. pushes' \in 0..MaxPushes
    BY <1>1, ConstantsAssumption DEF Start
  <2>4. QED
    BY <1>1, <2>1, <2>2, <2>3 DEF Start
<1>2. ASSUME NEW p \in Proc, ReadStatus(p) PROVE TypeOK'
  <2>1. PushOK'
    BY <1>2, ReadsTyped DEF ReadStatus, Goto, PushOK, PC
  <2>2. QED
    BY <1>2, <2>1 DEF ReadStatus, tree, shared, bounds, TreeOK, SharedOK
<1>3. ASSUME NEW p \in Proc, ReadKey(p) PROVE TypeOK'
  <2>1. KeyOf(listed[p]) \in Key /\ Disk \in Tree
    BY ReadsTyped DEF PushOK
  <2>2. PushOK'
    BY <1>0, <1>3, <2>1 DEF ReadKey, Goto, PushOK, PC
  <2>3. QED
    BY <1>3, <2>2 DEF ReadKey, tree, shared, bounds, TreeOK, SharedOK
<1>4. ASSUME NEW p \in Proc, ReadCache(p) PROVE TypeOK'
  <2>1. Hit(key[p]) => cache[key[p]] \in Verdict
    BY DEF Hit, SharedOK
  <2>2. PushOK'
    BY <1>4, <2>1 DEF ReadCache, Goto, PushOK, PC
  <2>3. QED
    BY <1>4, <2>2 DEF ReadCache, tree, shared, bounds, TreeOK, SharedOK
<1>5. ASSUME NEW p \in Proc, Wait(p) PROVE TypeOK'
  <2>1. CASE Acquire(p)
    <3>1. PushOK'
      BY <2>1 DEF Acquire, Goto, PushOK, PC, Running
    <3>2. QED
      BY <2>1, <3>1 DEF Acquire, tree, bounds, TreeOK, SharedOK
  <2>2. CASE PollAcquire(p)
    <3>1. PushOK'
      BY <2>2 DEF PollAcquire, Goto, PushOK, PC, Running
    <3>2. QED
      BY <2>2, <3>1 DEF PollAcquire, tree, bounds, TreeOK, SharedOK
  <2>3. CASE PollCache(p)
    <3>1. polls' \in [Proc -> 0..MaxPolls]
      BY <2>3, ConstantsAssumption DEF PollCache, PushOK
    <3>2. pc' \in [Proc -> PC]
      BY <2>3 DEF PollCache, Goto, PushOK, PC, Running
    <3>3. PushOK'
      BY <2>3, <3>1, <3>2 DEF PollCache, PushOK
    <3>4. QED
      BY <2>3, <3>3 DEF PollCache, tree, shared, bounds, TreeOK, SharedOK
  <2>4. CASE ReadPeer(p)
    <3>1. Hit(key[p]) => cache[key[p]] \in Verdict
      BY DEF Hit, SharedOK
    <3>2. PushOK'
      BY <2>4, <3>1 DEF ReadPeer, Goto, PushOK, PC, Running
    <3>3. QED
      BY <2>4, <3>2 DEF ReadPeer, tree, shared, bounds, TreeOK, SharedOK
  <2>5. QED
    BY <1>5, <2>1, <2>2, <2>3, <2>4 DEF Wait
<1>6. ASSUME NEW p \in Proc, Tsc(p) PROVE TypeOK'
  <2>1. TypeCheck(Disk) \in Verdict
    BY ReadsTyped, TypeCheckIsVerdict
  <2>2. PushOK'
    <3>1. pc' \in [Proc -> PC]
      BY <1>6 DEF Tsc, TscExits, TscKilled, TscBusy, Goto, PushOK, PC, Running
    <3>2. verdict' \in [Proc -> Verdict]
      BY <1>0, <1>6, <2>1 DEF Tsc, TscExits, TscKilled, TscBusy, PushOK
    <3>3. QED
      BY <1>6, <3>1, <3>2 DEF Tsc, TscExits, TscKilled, TscBusy, PushOK
  <2>3. TreeOK' /\ SharedOK' /\ moved' \in BOOLEAN
    BY <1>6 DEF Tsc, TscExits, TscKilled, TscBusy, tree, shared, TreeOK, SharedOK
  <2>4. pushes' \in 0..MaxPushes /\ crashes' \in 0..MaxCrashes
    BY <1>6, ConstantsAssumption DEF Tsc, TscExits, TscKilled, TscBusy, bounds
  <2>5. QED
    BY <2>2, <2>3, <2>4
<1>7. ASSUME NEW p \in Proc, OpenEntry(p) \/ FillEntry(p) \/ WriteFails(p)
      PROVE  TypeOK'
  <2>1. PushOK'
    BY <1>7 DEF OpenEntry, FillEntry, WriteFails, Goto, local, PushOK, PC, Running
  <2>2. SharedOK'
    BY <1>7, StoreTyped
    DEF OpenEntry, FillEntry, WriteFails, shared, SharedOK, PushOK
  <2>3. QED
    BY <1>7, <2>1, <2>2
    DEF OpenEntry, FillEntry, WriteFails, tree, bounds, TreeOK
<1>8. ASSUME NEW p \in Proc, Release(p) \/ Decide(p) \/ Crash(p) PROVE TypeOK'
  <2>1. CASE Release(p)
    <3>1. PushOK'
      BY <2>1 DEF Release, Goto, PushOK, PC
    <3>2. QED
      BY <2>1, <3>1 DEF Release, tree, bounds, TreeOK, SharedOK
  <2>2. CASE Decide(p)
    <3>1. PICK range \in PushedRange(p) :
            LET foreign == Foreign(verdict[p].errors, Dirty \ Misread, range)
            IN  /\ pushed' = [pushed EXCEPT ![p] = range]
                /\ \/ Goto(p, "passed") /\ waved' = [waved EXCEPT ![p] = foreign]
                   \/ Goto(p, "blocked") /\ UNCHANGED waved
      BY <2>2 DEF Decide
    <3>2. range \subseteq File
      BY DEF PushedRange
    <3>3. Foreign(verdict[p].errors, Dirty \ Misread, range) \subseteq File
      BY DEF Foreign, Dirty
    <3>4. PushOK'
      <4>1. pc' \in [Proc -> PC]
        BY <3>1 DEF Goto, PushOK, PC, Ended
      <4>2. /\ pushed' \in [Proc -> SUBSET File]
            /\ waved' \in [Proc -> SUBSET File]
        BY <3>1, <3>2, <3>3 DEF PushOK
      <4>3. QED
        BY <2>2, <4>1, <4>2 DEF Decide, PushOK
    <3>5. QED
      BY <2>2, <3>4 DEF Decide, tree, shared, bounds, TreeOK, SharedOK
  <2>3. CASE Crash(p)
    <3>1. PushOK'
      BY <2>3 DEF Crash, Goto, PushOK, PC, Ended
    <3>2. crashes' \in 0..MaxCrashes
      BY <2>3, ConstantsAssumption DEF Crash
    <3>3. QED
      BY <2>3, <3>1, <3>2 DEF Crash, tree, shared, TreeOK, SharedOK
  <2>4. QED
    BY <1>8, <2>1, <2>2, <2>3
<1>9. ASSUME NEW f \in File, NEW v \in Version, Edit(f, v) PROVE TypeOK'
  <2>1. TreeOK'
    BY <1>9 DEF Edit, TreeOK
  <2>2. QED
    BY <1>9, <2>1 DEF Edit, shared, local, bounds, SharedOK, PushOK
<1>10. ASSUME NEW f \in File, Commit(f) PROVE TypeOK'
  <2>1. TreeOK'
    BY <1>10 DEF Commit, TreeOK, Tree, Body
  <2>2. QED
    BY <1>10, <2>1 DEF Commit, shared, local, bounds, SharedOK, PushOK
<1>11. CASE FixerLocks \/ FixerUnlocks \/ ReclaimLock
  BY <1>11 DEF FixerLocks, FixerUnlocks, ReclaimLock, tree, local, bounds,
               TreeOK, SharedOK, PushOK
<1>12. CASE UNCHANGED vars
  BY <1>12 DEF vars, tree, shared, local, bounds, TreeOK, SharedOK, PushOK
<1>13. QED
  BY <1>1, <1>2, <1>3, <1>4, <1>5, <1>6, <1>7, <1>8, <1>9, <1>10, <1>11, <1>12
  DEF Next, Advance

(* Every variable of the type-check gate keeps its type.                   *)
THEOREM MemoTypeCorrect == Spec => []TypeOK
<1>1. QED
  BY TypeInit, TypeStep, PTL DEF Spec

(***************************************************************************)
(* The lock                                                                *)
(***************************************************************************)

(* A push with a handle has the lock and runs; the lock of a push is       *)
(* matched by its handle until it dies.                                    *)
LockInv ==
    \A p \in Proc :
        /\ held[p] => lock = p /\ pc[p] \in Running
        /\ lock = p => held[p] \/ pc[p] = "dead"

LEMMA LockStep == TypeOK /\ LockInv /\ [Next]_vars => LockInv'
<1> SUFFICES ASSUME TypeOK, LockInv, [Next]_vars PROVE LockInv'
  OBVIOUS
<1>0. /\ pc \in [Proc -> PC] /\ held \in [Proc -> BOOLEAN]
      /\ None \notin Proc /\ Fixer \notin Proc
  BY ConstantsAssumption DEF TypeOK, PushOK
<1>1. ASSUME NEW p \in Proc, Start(p) \/ Crash(p) PROVE LockInv'
  BY <1>0, <1>1 DEF LockInv, Start, Crash, Goto, shared, Ended, Running
<1>2. ASSUME NEW p \in Proc, Wait(p) PROVE LockInv'
  BY <1>0, <1>2 DEF LockInv, Wait, Acquire, PollAcquire, PollCache, ReadPeer,
                    Goto, shared, Running
<1>3. ASSUME NEW p \in Proc, Tsc(p) PROVE LockInv'
  BY <1>0, <1>3 DEF LockInv, Tsc, TscExits, TscKilled, TscBusy, Goto, shared,
                    Running
<1>4. ASSUME NEW p \in Proc,
             ReadStatus(p) \/ ReadKey(p) \/ ReadCache(p) \/ Decide(p)
      PROVE  LockInv'
  <2>1. /\ UNCHANGED <<lock, held>> /\ pc[p] \notin Running \cup {"dead"}
        /\ \A q \in Proc : q # p => pc'[q] = pc[q]
    BY <1>0, <1>4 DEF ReadStatus, ReadKey, ReadCache, Decide, Goto, shared, Running
  <2>2. QED
    BY <2>1 DEF LockInv
<1>5. ASSUME NEW p \in Proc, OpenEntry(p) \/ FillEntry(p) \/ WriteFails(p)
      PROVE  LockInv'
  BY <1>0, <1>5 DEF LockInv, OpenEntry, FillEntry, WriteFails, Goto, local,
                    shared, Running
<1>6. ASSUME NEW p \in Proc, Release(p) PROVE LockInv'
  BY <1>0, <1>6 DEF LockInv, Release, Goto, Running
<1>7. CASE \E f \in File : Commit(f) \/ \E v \in Version : Edit(f, v)
  BY <1>7 DEF LockInv, Commit, Edit, shared, local
<1>8. CASE FixerLocks \/ FixerUnlocks \/ ReclaimLock
  BY <1>0, <1>8 DEF LockInv, FixerLocks, FixerUnlocks, ReclaimLock, local, Running
<1>9. CASE UNCHANGED vars
  BY <1>9 DEF LockInv, vars, shared, local
<1>10. QED
  BY <1>1, <1>2, <1>3, <1>4, <1>5, <1>6, <1>7, <1>8, <1>9 DEF Next, Advance

LEMMA LockAlways == Spec => []LockInv
<1>1. Init => LockInv
  BY ConstantsAssumption DEF Init, LockInv
<1>2. QED
  BY <1>1, LockStep, MemoTypeCorrect, PTL DEF Spec

(* Two runs of the compiler that have a handle are one: no push releases   *)
(* the lock under another, whatever waits, times out, dies or is refused.  *)
THEOREM MemoHolderRunsAlone == Spec => []HolderRunsAlone
<1>1. LockInv => HolderRunsAlone
  BY DEF LockInv, HolderRunsAlone
<1>2. QED
  BY <1>1, LockAlways, PTL

(* A push that waits or has decided left no lock behind, whichever attempt *)
(* had got it.                                                             *)
THEOREM MemoNothingLeftHeld == Spec => []NothingLeftHeld
<1>1. LockInv => NothingLeftHeld
  BY DEF LockInv, NothingLeftHeld
<1>2. QED
  BY <1>1, LockAlways, PTL

(***************************************************************************)
(* Verdicts and trees                                                      *)
(***************************************************************************)

(* A key is known when it names every dirty path with a content that path  *)
(* has had: the tree it describes is then fixed for ever.                  *)
Known(k) == \A f \in k.dirty : k.stamp[f] <= Len(past[f])

Keyed   == PC \ (Ended \cup {"status", "key"})
Judged  == {"open", "fill", "release", "decide"}

(* The verdict on file for a key, the tree a push has hashed, and the      *)
(* verdict it goes by, all belong to the tree its key describes.           *)
EntryFits(k) ==
    WellNamed(k) /\ cache[k] \notin {Torn, Failed} => cache[k] = TypeCheck(TreeOf(k))

PushFits(p) ==
    WellNamed(key[p]) =>
        /\ pc[p] \in Keyed => seen[p] = TreeOf(key[p])
        /\ pc[p] \in Judged /\ verdict[p] # Failed => verdict[p] = TypeCheck(seen[p])

MemoInv ==
    /\ \A k \in DOMAIN cache : Known(k)
    /\ \A p \in Proc : Known(key[p])
    /\ ~moved => /\ \A k \in DOMAIN cache : EntryFits(k)
                 /\ \A p \in Proc : PushFits(p)

(* An edit only adds a content: what a known key describes stays.          *)
LEMMA EditKeepsKeys ==
  ASSUME TreeOK, NEW f \in File, NEW v \in Version, Edit(f, v),
         NEW k \in Key, Known(k)
  PROVE  Known(k)' /\ (WellNamed(k) => TreeOf(k)' = TreeOf(k))
<1>1. \A g \in File : /\ Len(past[g]) \in Nat
                      /\ Len(past'[g]) \in Nat /\ Len(past[g]) <= Len(past'[g])
                      /\ \A i \in 1..Len(past[g]) : past'[g][i] = past[g][i]
  <2> TAKE g \in File
  <2>1. past[g] \in Seq(Version)
    BY DEF TreeOK
  <2>2. past'[g] = IF g = f THEN Append(past[g], v) ELSE past[g]
    BY DEF Edit, TreeOK
  <2>3. QED
    BY <2>1, <2>2
<1>2. k.dirty \subseteq File /\ \A g \in File : k.stamp[g] \in Nat
  BY DEF Key
<1>3. Known(k)'
  BY <1>1, <1>2 DEF Known
<1>4. ASSUME WellNamed(k) PROVE TreeOf(k)' = TreeOf(k)
  <2>1. \A g \in k.dirty : k.stamp[g] \in 1..Len(past[g])
    BY <1>1, <1>2, <1>4 DEF Known, WellNamed
  <2>2. \A g \in k.dirty : past'[g][k.stamp[g]] = past[g][k.stamp[g]]
    BY <1>1, <1>2, <2>1
  <2>3. QED
    BY <2>2 DEF TreeOf
<1>5. QED
  BY <1>3, <1>4

(* A key read off an unchanged listing describes the tree on disk, unless  *)
(* a path was misread.                                                     *)
LEMMA KeyFitsDisk ==
  ASSUME TreeOK, NEW l \in [dirty : SUBSET File, misread : SUBSET File]
  PROVE  /\ Known(KeyOf(l))
         /\ l = Listing /\ WellNamed(KeyOf(l)) => TreeOf(KeyOf(l)) = Disk
<1>1. \A f \in File : Len(past[f]) \in Nat \ {0}
  BY DEF TreeOK
<1>2. Known(KeyOf(l))
  BY <1>1 DEF Known, KeyOf
<1>3. ASSUME l = Listing, WellNamed(KeyOf(l)) PROVE TreeOf(KeyOf(l)) = Disk
  <2>1. \A f \in Dirty : KeyOf(l).stamp[f] = Len(past[f])
    BY <1>3 DEF KeyOf, WellNamed, Listing, Dirty
  <2>2. \A f \in File \ Dirty : head[f] = Body(f)
    BY DEF Dirty
  <2>3. KeyOf(l).dirty = Dirty /\ KeyOf(l).head = head
    BY <1>3 DEF KeyOf, Listing
  <2>4. QED
    BY <2>1, <2>2, <2>3 DEF TreeOf, Disk, Body
<1>4. QED
  BY <1>2, <1>3

LEMMA MemoInit == Init => MemoInv
  BY DEF Init, MemoInv, Known, NoKey, PushFits, Judged, Keyed, PC, Ended, EntryFits

(* Steps of push p leave the other pushes' knowledge alone.                *)
LEMMA OthersFit ==
  ASSUME TypeOK, MemoInv, NEW p \in Proc, UNCHANGED past, moved => moved',
         \A q \in Proc \ {p} : /\ pc'[q] = pc[q] /\ key'[q] = key[q]
                               /\ seen'[q] = seen[q] /\ verdict'[q] = verdict[q]
  PROVE  \A q \in Proc \ {p} : Known(key[q])' /\ (~moved' => PushFits(q)')
<1> TAKE q \in Proc \ {p}
<1>1. Known(key[q])' /\ TreeOf(key[q])' = TreeOf(key[q])
  BY DEF MemoInv, Known, TreeOf
<1>2. ~moved' => PushFits(q)'
  BY <1>1 DEF MemoInv, PushFits, WellNamed, TypeCheck
<1>3. QED
  BY <1>1, <1>2

(* A step that does not write the cache or the tree keeps its entries.     *)
LEMMA EntriesFit ==
  ASSUME MemoInv, UNCHANGED <<past, cache>>, moved => moved'
  PROVE  \A k \in DOMAIN cache' : Known(k)' /\ (~moved' => EntryFits(k)')
  BY DEF MemoInv, Known, EntryFits, TreeOf, WellNamed, TypeCheck

LEMMA MemoStep == TypeOK /\ MemoInv /\ [Next]_vars => MemoInv'
<1> SUFFICES ASSUME TypeOK, MemoInv, [Next]_vars PROVE MemoInv'
  OBVIOUS
<1>0. /\ pc \in [Proc -> PC] /\ key \in [Proc -> Key] /\ seen \in [Proc -> Tree]
      /\ verdict \in [Proc -> Verdict] /\ TreeOK
      /\ listed \in [Proc -> [dirty : SUBSET File, misread : SUBSET File]]
      /\ moved \in BOOLEAN
  BY DEF TypeOK, PushOK
<1>a. ASSUME NEW p \in Proc, UNCHANGED <<past, cache>>, moved => moved',
             \A q \in Proc \ {p} : /\ pc'[q] = pc[q] /\ key'[q] = key[q]
                                   /\ seen'[q] = seen[q] /\ verdict'[q] = verdict[q],
             Known(key[p])', ~moved' => PushFits(p)'
      PROVE  MemoInv'
  BY <1>a, OthersFit, EntriesFit DEF MemoInv
<1>1. ASSUME NEW p \in Proc, Start(p) PROVE MemoInv'
  <2>1. pc'[p] = "status" /\ key'[p] = NoKey
    BY <1>0, <1>1 DEF Start, Goto
  <2>2. Known(key[p])' /\ PushFits(p)'
    BY <2>1 DEF Known, NoKey, PushFits, Keyed, Judged
  <2>3. QED
    BY <1>0, <1>1, <1>a, <2>2 DEF Start, Goto, tree, shared
<1>2. ASSUME NEW p \in Proc, ReadStatus(p) PROVE MemoInv'
  <2>1. pc'[p] = "key" /\ UNCHANGED <<key, past>>
    BY <1>0, <1>2 DEF ReadStatus, Goto, tree
  <2>2. Known(key[p])' /\ PushFits(p)'
    BY <2>1 DEF MemoInv, Known, PushFits, Keyed, Judged
  <2>3. QED
    BY <1>0, <1>2, <1>a, <2>2 DEF ReadStatus, Goto, tree, shared
<1>3. ASSUME NEW p \in Proc, ReadKey(p) PROVE MemoInv'
  <2>1. /\ pc'[p] = "cache" /\ key'[p] = KeyOf(listed[p]) /\ seen'[p] = Disk
        /\ ~moved' => listed[p] = Listing
        /\ UNCHANGED <<past, cache>> /\ (moved => moved')
    BY <1>0, <1>3 DEF ReadKey, Goto, tree, shared
  <2>2. Known(key'[p]) /\ (listed[p] = Listing /\ WellNamed(key'[p])
                               => TreeOf(key'[p]) = Disk)
    BY <1>0, <2>1, KeyFitsDisk
  <2>3. Known(key[p])' /\ TreeOf(key[p])' = TreeOf(key'[p])
    BY <2>1, <2>2 DEF Known, TreeOf
  <2>4. ~moved' => PushFits(p)'
    BY <2>1, <2>2, <2>3 DEF PushFits, Judged, WellNamed
  <2>5. QED
    BY <1>0, <1>3, <1>a, <2>1, <2>3, <2>4 DEF ReadKey, Goto
<1>4. ASSUME NEW p \in Proc, ReadCache(p) \/ ReadPeer(p) PROVE MemoInv'
  <2>1. /\ UNCHANGED <<past, cache, key, seen, moved>> /\ pc[p] \in Keyed
        /\ pc'[p] \in Judged => Hit(key[p]) /\ verdict'[p] = cache[key[p]]
        /\ \A q \in Proc \ {p} : pc'[q] = pc[q] /\ verdict'[q] = verdict[q]
    BY <1>0, <1>4 DEF ReadCache, ReadPeer, Goto, tree, shared, Keyed, Judged, PC, Ended
  <2>2. Known(key[p])' /\ TreeOf(key[p])' = TreeOf(key[p])
    BY <2>1 DEF MemoInv, Known, TreeOf
  <2>3. ASSUME ~moved', WellNamed(key[p]) PROVE PushFits(p)'
    <3>1. seen[p] = TreeOf(key[p])
      BY <2>1, <2>3 DEF MemoInv, PushFits
    <3>2. Hit(key[p]) /\ cache[key[p]] # Failed
            => cache[key[p]] = TypeCheck(TreeOf(key[p]))
      BY <2>1, <2>3 DEF MemoInv, EntryFits, Hit
    <3>3. QED
      BY <2>1, <2>2, <3>1, <3>2 DEF PushFits, TypeCheck
  <2>4. ~moved' => PushFits(p)'
    BY <2>1, <2>3 DEF PushFits, WellNamed
  <2>5. QED
    BY <1>a, <2>1, <2>2, <2>4
<1>5. ASSUME NEW p \in Proc, Acquire(p) \/ PollAcquire(p) \/ PollCache(p)
      PROVE  MemoInv'
  <2>1. /\ UNCHANGED <<past, cache, key, seen, verdict, moved>>
        /\ pc[p] \in Keyed /\ pc'[p] \notin Judged
        /\ \A q \in Proc \ {p} : pc'[q] = pc[q]
    BY <1>0, <1>5
    DEF Acquire, PollAcquire, PollCache, Goto, tree, shared, Keyed, Judged, PC, Ended
  <2>2. Known(key[p])' /\ TreeOf(key[p])' = TreeOf(key[p])
    BY <2>1 DEF MemoInv, Known, TreeOf
  <2>3. ~moved' => PushFits(p)'
    BY <2>1, <2>2 DEF MemoInv, PushFits, WellNamed
  <2>4. QED
    BY <1>a, <2>1, <2>2, <2>3
<1>6. ASSUME NEW p \in Proc, Tsc(p) PROVE MemoInv'
  <2>1. /\ UNCHANGED <<past, cache, key, seen>> /\ pc[p] \in Keyed
        /\ moved => moved'
        /\ ~moved' /\ verdict'[p] # Failed
             => verdict'[p] = TypeCheck(Disk) /\ Disk = seen[p]
        /\ \A q \in Proc \ {p} : pc'[q] = pc[q] /\ verdict'[q] = verdict[q]
    BY <1>0, <1>6 DEF Tsc, TscExits, TscKilled, TscBusy, Goto, tree, shared,
                      Keyed, PC, Running, Ended
  <2>2. Known(key[p])' /\ TreeOf(key[p])' = TreeOf(key[p])
    BY <2>1 DEF MemoInv, Known, TreeOf
  <2>3. ~moved' => PushFits(p)'
    BY <2>1, <2>2 DEF MemoInv, PushFits, WellNamed, TypeCheck
  <2>4. QED
    BY <1>a, <2>1, <2>2, <2>3
<1>7. ASSUME NEW p \in Proc, NEW e, Store(key[p], e),
             e = Torn \/ (e = verdict[p] /\ pc[p] \in Judged),
             UNCHANGED <<past, key, seen, verdict, moved>>,
             pc[p] \in Judged, pc'[p] \in Judged,
             \A q \in Proc \ {p} : pc'[q] = pc[q]
      PROVE  MemoInv'
  <2>1. Judged \subseteq Keyed
    BY DEF Judged, Keyed, PC, Running, Ended
  <2>2. Known(key[p])' /\ TreeOf(key[p])' = TreeOf(key[p])
    BY <1>7 DEF MemoInv, Known, TreeOf
  <2>3. ~moved' => PushFits(p)'
    BY <1>7, <2>1, <2>2 DEF MemoInv, PushFits, WellNamed, TypeCheck
  <2>4. ASSUME NEW k \in DOMAIN cache', k # key[p]
        PROVE  Known(k)' /\ (~moved' => EntryFits(k)')
    <3>1. k \in DOMAIN cache /\ cache'[k] = cache[k]
      BY <1>7, <2>4 DEF Store
    <3>2. QED
      BY <1>7, <3>1 DEF MemoInv, Known, EntryFits, TreeOf, WellNamed, TypeCheck
  <2>5. ASSUME ~moved' PROVE EntryFits(key[p])'
    <3>1. cache'[key[p]] = e
      BY <1>7 DEF Store
    <3>2. WellNamed(key[p]) /\ e \notin {Torn, Failed} => e = TypeCheck(TreeOf(key[p]))
      BY <1>7, <2>1, <2>5 DEF MemoInv, PushFits
    <3>3. QED
      BY <1>7, <2>2, <3>1, <3>2 DEF EntryFits, WellNamed, TypeCheck
  <2>6. \A k \in DOMAIN cache' : Known(k)' /\ (~moved' => EntryFits(k)')
    BY <1>7, <2>2, <2>4, <2>5
  <2>7. QED
    BY <1>7, <2>2, <2>3, <2>6, OthersFit DEF MemoInv
<1>8. ASSUME NEW p \in Proc, OpenEntry(p) \/ FillEntry(p) PROVE MemoInv'
  <2>1. UNCHANGED <<past, key, seen, verdict, moved>>
    BY <1>8 DEF OpenEntry, FillEntry, tree, local
  <2>2. /\ pc[p] \in Judged /\ pc'[p] \in Judged
        /\ \A q \in Proc \ {p} : pc'[q] = pc[q]
    BY <1>0, <1>8 DEF OpenEntry, FillEntry, Goto, Judged
  <2>3. CASE OpenEntry(p)
    BY <1>7, <2>1, <2>2, <2>3 DEF OpenEntry
  <2>4. CASE FillEntry(p)
    BY <1>7, <2>1, <2>2, <2>4 DEF FillEntry
  <2>5. QED
    BY <1>8, <2>3, <2>4
<1>9. ASSUME NEW p \in Proc, WriteFails(p) \/ Release(p) \/ Decide(p) \/ Crash(p)
      PROVE  MemoInv'
  <2>1. /\ UNCHANGED <<past, cache, key, seen, verdict, moved>>
        /\ \A q \in Proc \ {p} : pc'[q] = pc[q]
    BY <1>0, <1>9
    DEF WriteFails, Release, Decide, Crash, Goto, tree, shared, local
  <2>2. /\ pc'[p] \in Keyed => pc[p] \in Keyed
        /\ pc'[p] \in Judged => pc[p] \in Judged
    BY <1>0, <1>9 DEF WriteFails, Release, Decide, Crash, Goto, Judged, Keyed,
                      PC, Running, Ended
  <2>3. Known(key[p])' /\ TreeOf(key[p])' = TreeOf(key[p])
    BY <2>1 DEF MemoInv, Known, TreeOf
  <2>4. ~moved' => PushFits(p)'
    BY <2>1, <2>2, <2>3 DEF MemoInv, PushFits, WellNamed, TypeCheck
  <2>5. QED
    BY <1>a, <2>1, <2>3, <2>4
<1>10. ASSUME NEW f \in File, NEW v \in Version, Edit(f, v) PROVE MemoInv'
  <2>1. UNCHANGED <<cache, pc, key, seen, verdict, moved>>
    BY <1>10 DEF Edit, shared, local
  <2>2. \A k \in DOMAIN cache : k \in Key /\ Known(k)
    BY DEF TypeOK, SharedOK, MemoInv
  <2>3. \A k \in Key : Known(k) =>
            Known(k)' /\ (WellNamed(k) => TreeOf(k)' = TreeOf(k))
    BY <1>0, <1>10, EditKeepsKeys
  <2>4. \A k \in DOMAIN cache' : Known(k)' /\ (~moved' => EntryFits(k)')
    BY <2>1, <2>2, <2>3 DEF MemoInv, EntryFits, WellNamed, TypeCheck
  <2>5. ASSUME NEW p \in Proc PROVE Known(key[p])' /\ (~moved' => PushFits(p)')
    <3>1. key[p] \in Key /\ Known(key[p]) /\ key'[p] = key[p]
      BY <1>0, <2>1 DEF MemoInv
    <3>2. Known(key[p])' /\ (WellNamed(key[p]) => TreeOf(key[p])' = TreeOf(key[p]))
      BY <2>1, <2>3, <3>1 DEF Known, TreeOf
    <3>3. QED
      BY <2>1, <3>2 DEF MemoInv, PushFits, WellNamed, TypeCheck
  <2>6. QED
    BY <2>4, <2>5 DEF MemoInv
<1>11. CASE \/ \E f \in File : Commit(f)
            \/ FixerLocks \/ FixerUnlocks \/ ReclaimLock \/ UNCHANGED vars
  <2>1. UNCHANGED <<past, cache, pc, key, seen, verdict, moved>>
    BY <1>11 DEF Commit, FixerLocks, FixerUnlocks, ReclaimLock, vars, tree, shared, local
  <2>2. \A k \in DOMAIN cache' : Known(k)' /\ (~moved' => EntryFits(k)')
    BY <2>1, EntriesFit
  <2>3. ASSUME NEW p \in Proc PROVE Known(key[p])' /\ (~moved' => PushFits(p)')
    <3>1. Known(key[p])' /\ TreeOf(key[p])' = TreeOf(key[p])
      BY <2>1 DEF MemoInv, Known, TreeOf
    <3>2. QED
      BY <2>1, <3>1 DEF MemoInv, PushFits, WellNamed, TypeCheck
  <2>4. QED
    BY <2>2, <2>3 DEF MemoInv
<1>12. QED
  BY <1>1, <1>2, <1>3, <1>4, <1>5, <1>6, <1>8, <1>9, <1>10, <1>11
  DEF Next, Advance, Wait

(* As long as no tree changed under a key or a compiler, every push whose  *)
(* key lists the dirty paths rightly goes by a verdict of the tree it      *)
(* hashed, though a peer recorded it, and the checkout was edited,         *)
(* committed and reverted since.                                           *)
THEOREM MemoVerdictFitsTree == Spec => []VerdictFitsTree
<1>1. MemoInv => VerdictFitsTree
  BY DEF MemoInv, PushFits, VerdictFitsTree, GoesByItsTree, Judged
<1>2. QED
  BY <1>1, MemoInit, MemoStep, MemoTypeCorrect, PTL DEF Spec

(***************************************************************************)
(* What a push that passed has shown                                       *)
(***************************************************************************)

(* A push that passed and waved nothing through did so on a verdict that   *)
(* its own tree has no errors, and nothing it went by changes afterwards.  *)
PassedClean(p) ==
    pc[p] = "passed" /\ WellNamed(key[p]) /\ waved[p] = {}
        => Errors(seen[p]) = {}
PassInv == ~moved => \A p \in Proc : PassedClean(p)

(* A push decides on the verdict of its own tree, so it passes cleanly.    *)
LEMMA DecidePasses ==
  ASSUME TypeOK, MemoInv, ~moved, NEW p \in Proc, Decide(p)
  PROVE  PassedClean(p)'
<1>0. /\ pc \in [Proc -> PC] /\ waved \in [Proc -> SUBSET File]
      /\ verdict[p] \in Verdict
  BY DEF TypeOK, PushOK
<1>1. PICK range \in PushedRange(p) :
        LET v == verdict[p]
            foreign == Foreign(v.errors, Dirty \ Misread, range)
        IN  IF v.ok \/ (v.errors # {} /\ v.errors = foreign)
              THEN Goto(p, "passed") /\ waved' = [waved EXCEPT ![p] = foreign]
              ELSE Goto(p, "blocked") /\ UNCHANGED waved
  BY DEF Decide
<1>2. pc'[p] = "passed" /\ waved'[p] = {} => verdict[p].ok
  BY <1>0, <1>1 DEF Goto
<1>3. WellNamed(key[p]) /\ verdict[p].ok => verdict[p] = TypeCheck(seen[p])
  BY DEF MemoInv, PushFits, Judged, Decide, Failed
<1>4. verdict[p].ok /\ verdict[p] = TypeCheck(seen[p]) => Errors(seen[p]) = {}
  <2>1. TypeCheck(seen[p]).ok = (Errors(seen[p]) = {})
    BY DEF TypeCheck
  <2>2. QED
    BY <2>1, Zenon
<1>5. UNCHANGED <<key, seen>>
  BY DEF Decide
<1>6. QED
  BY <1>2, <1>3, <1>4, <1>5 DEF PassedClean, WellNamed

(* No other step makes a push pass, or changes what one that passed says.  *)
LEMMA PassedStays ==
  ASSUME TypeOK, NEW p \in Proc, [Next]_vars, ~Decide(p), pc'[p] = "passed"
  PROVE  pc[p] = "passed" /\ UNCHANGED <<key[p], seen[p], waved[p]>>
<1>0. /\ pc \in [Proc -> PC] /\ key \in [Proc -> Key] /\ seen \in [Proc -> Tree]
      /\ waved \in [Proc -> SUBSET File]
  BY DEF TypeOK, PushOK
<1> USE <1>0 DEF Goto
<1>1. ASSUME NEW q \in Proc, Start(q)
      PROVE  pc[p] = "passed" /\ UNCHANGED <<key[p], seen[p], waved[p]>>
  BY <1>1 DEF Start
<1>2. ASSUME NEW q \in Proc, ReadStatus(q) \/ ReadKey(q) \/ ReadCache(q) \/ Wait(q)
      PROVE  pc[p] = "passed" /\ UNCHANGED <<key[p], seen[p], waved[p]>>
  BY <1>2 DEF ReadStatus, ReadKey, ReadCache, Wait, Acquire, PollAcquire,
              PollCache, ReadPeer
<1>3. ASSUME NEW q \in Proc,
             \/ Tsc(q) \/ OpenEntry(q) \/ FillEntry(q) \/ WriteFails(q)
             \/ Release(q) \/ Crash(q)
      PROVE  pc[p] = "passed" /\ UNCHANGED <<key[p], seen[p], waved[p]>>
  BY <1>3 DEF Tsc, TscExits, TscKilled, TscBusy, OpenEntry, FillEntry,
              WriteFails, Release, Crash, local
<1>4. ASSUME NEW q \in Proc, Decide(q)
      PROVE  pc[p] = "passed" /\ UNCHANGED <<key[p], seen[p], waved[p]>>
  <2>1. q # p
    BY <1>4
  <2>2. UNCHANGED <<key, seen, pc[p], waved[p]>>
    BY <1>4, <2>1 DEF Decide
  <2>3. QED
    BY <2>2
<1>5. CASE \/ \E f \in File : Commit(f) \/ \E v \in Version : Edit(f, v)
           \/ FixerLocks \/ FixerUnlocks \/ ReclaimLock \/ UNCHANGED vars
  BY <1>5 DEF Commit, Edit, FixerLocks, FixerUnlocks, ReclaimLock, vars, local
<1>6. QED
  BY <1>1, <1>2, <1>3, <1>4, <1>5 DEF Next, Advance

(* Once the tree has moved under a key or a compiler, it stays said.       *)
LEMMA MovedStays ==
  ASSUME TypeOK, [Next]_vars, moved
  PROVE  moved'
<1>1. ASSUME NEW q \in Proc, Start(q) \/ Crash(q) PROVE moved'
  BY <1>1 DEF Start, Crash
<1>2. ASSUME NEW q \in Proc, Advance(q) PROVE moved'
  BY <1>2 DEF Advance, ReadStatus, ReadKey, ReadCache, Wait, Acquire, PollAcquire,
              PollCache, ReadPeer, Tsc, TscExits, TscKilled, TscBusy, OpenEntry,
              FillEntry, WriteFails, Release, Decide
<1>3. QED
  BY <1>1, <1>2
  DEF Next, Commit, Edit, FixerLocks, FixerUnlocks, ReclaimLock, vars

LEMMA PassStep == TypeOK /\ MemoInv /\ PassInv /\ [Next]_vars => PassInv'
<1> SUFFICES ASSUME TypeOK, MemoInv, PassInv, [Next]_vars, ~moved',
                    NEW p \in Proc
             PROVE  PassedClean(p)'
  BY DEF PassInv
<1>1. ~moved
  BY MovedStays
<1>2. CASE Decide(p)
  BY <1>1, <1>2, DecidePasses
<1>3. CASE ~Decide(p)
  BY <1>1, <1>3, PassedStays DEF PassInv, PassedClean, WellNamed
<1>4. QED
  BY <1>2, <1>3

(* A push passes on its own clean commit only if that commit type-checks:  *)
(* neither a killed or refused compiler nor a peer's or an older verdict   *)
(* lets it pass otherwise, for any number of pushes, files and edits.      *)
THEOREM MemoPassedChecks == Spec => []PassedCommitChecks
<1>1. Init => PassInv
  BY DEF Init, PassInv, PassedClean
<1>2. PassInv => PassedCommitChecks
  BY DEF PassInv, PassedClean, PassedCommitChecks
<1>3. QED
  BY <1>1, <1>2, PassStep, MemoInit, MemoStep, MemoTypeCorrect, PTL DEF Spec
==============================================================================
