---------------------------- MODULE TypecheckMemo ----------------------------
(***************************************************************************)
(* The type-check gate of concurrent `git push` runs on one checkout       *)
(* (.git-hooks/_shared/push/repo-gates.mts, typecheck-cache.mts): a push   *)
(* computes a key for the working tree, looks for a recorded verdict,      *)
(* waits for the fixer lock or for a peer's verdict, runs the compiler,    *)
(* records its verdict and decides which reported errors are its own.      *)
(* Sessions edit and commit in the same checkout meanwhile.                *)
(***************************************************************************)
EXTENDS Naturals, Sequences

CONSTANTS
    Proc,        \* pre-push hooks (their processes)
    Fixer,       \* a lint or fix run, which takes the same lock
    None,        \* nobody has the lock
    File,        \* source files of the checkout
    Version,     \* contents a file can have
    Rank,        \* place of each file in the order of `git status`
    Staged,      \* files whose changes are in the index or untracked: their
                 \* porcelain line does not begin with a blank
    Origin,      \* the tree the pushes start from
    Heads,       \* the trees that may be committed at first
    Errors(_),   \* the files tsc reports errors in, of a tree
    Torn,        \* a verdict file that is being written, or was left so
    MaxEdits,    \* bound on the edits of one file
    MaxPushes,   \* bound on the pushes
    MaxPolls,    \* polls until the deadline (180 s, every 250 ms)
    MaxCrashes   \* bound on the kills

Tree == [File -> Version]
Verdict == [ok : BOOLEAN, errors : SUBSET File]

ASSUME ConstantsAssumption ==
    /\ {None, Fixer} \cap Proc = {} /\ None # Fixer
    /\ Rank \in [File -> Nat] /\ Staged \subseteq File
    /\ Origin \in Tree /\ Heads \subseteq Tree
    /\ \A t \in Tree : Errors(t) \subseteq File
    /\ Torn \notin Verdict
    /\ {MaxEdits, MaxPushes, MaxPolls, MaxCrashes} \subseteq Nat

VARIABLES
    head,     \* the tree of the commit HEAD
    past,     \* the contents each file has had; the last one is there now,
              \* and their number stands for the file's size and mtime
    cache,    \* the verdict files, by key
    lock,     \* who has the fixer lock
    pc,       \* what each push does next
    carries,  \* the tree of the commit it pushes
    pushed,   \* the files of its pushed range as it read them
    listed,   \* the paths `git status` listed: all, and those misread
    key,      \* the cache key it computed
    polls,    \* how often it has polled
    held,     \* whether it has a handle on the lock to release
    verdict,  \* the verdict it goes by
    seen,     \* history: the tree on disk when it computed its key
    waved,    \* history: files it waved through as foreign
    moved,    \* history: the tree changed under a key or a compiler
    pushes,   \* pushes so far
    crashes   \* kills so far

tree   == <<head, past>>
shared == <<cache, lock>>
local  == <<carries, pushed, listed, key, polls, held, verdict, seen, waved>>
bounds == <<pushes, crashes>>
vars   == <<tree, shared, pc, local, moved, bounds>>

Ended   == {"idle", "passed", "blocked", "dead"}
Running == {"tsc", "open", "fill", "release"}
PC == Ended \cup Running
        \cup {"status", "key", "cache", "acquire", "poll", "peek", "peer", "decide"}

NoKey     == [head |-> Origin, dirty |-> {}, stamp |-> [f \in File |-> 0]]
Failed    == [ok |-> FALSE, errors |-> {}]
NoListing == [dirty |-> {}, misread |-> {}]

Body(f)     == past[f][Len(past[f])]
Disk        == [f \in File |-> Body(f)]
Dirty       == {f \in File : Body(f) # head[f]}
TypeCheck(t) == [ok |-> Errors(t) = {}, errors |-> Errors(t)]

(* readDirtyFiles cuts three characters off each porcelain line, but       *)
(* gitLines has trimmed the output: if the first line begins with a blank, *)
(* that path loses its first letter.                                       *)
Misread == {f \in Dirty \ Staged : \A g \in Dirty : Rank[f] <= Rank[g]}

Listing == [dirty |-> Dirty, misread |-> Misread]

(* Mutant: the key is HEAD alone. *)
KeyOfHead(l) ==
    [head |-> head, dirty |-> {}, stamp |-> [f \in File |-> 0]]

(* HEAD, the dirty paths, and each one's size and mtime; 0 stands for      *)
(* "missing", which is what a misread path is.                             *)
KeyOf(l) ==
    [head |-> head, dirty |-> l.dirty,
     stamp |-> [f \in File |->
                    IF f \in l.dirty \ l.misread THEN Len(past[f]) ELSE 0]]

WellNamed(k) == \A f \in k.dirty : k.stamp[f] # 0

(* A parseable verdict is on file for key k. *)
Hit(k) == k \in DOMAIN cache /\ cache[k] # Torn

Store(k, e) ==
    cache' = [x \in DOMAIN cache \cup {k} |-> IF x = k THEN e ELSE cache[x]]

Goto(p, s) == pc' = [pc EXCEPT ![p] = s]

Init ==
    /\ head \in Heads
    /\ past = [f \in File |-> <<head[f]>>]
    /\ cache = [k \in {} |-> Torn]
    /\ lock = None
    /\ pc = [p \in Proc |-> "idle"]
    /\ carries = [p \in Proc |-> Origin]
    /\ pushed = [p \in Proc |-> {}]
    /\ listed = [p \in Proc |-> NoListing]
    /\ key = [p \in Proc |-> NoKey]
    /\ polls = [p \in Proc |-> 0]
    /\ held = [p \in Proc |-> FALSE]
    /\ verdict = [p \in Proc |-> Failed]
    /\ seen = [p \in Proc |-> Origin]
    /\ waved = [p \in Proc |-> {}]
    /\ moved = FALSE
    /\ pushes = 0
    /\ crashes = 0

-----------------------------------------------------------------------------
(* A push of HEAD begins.  A process that left the lock behind does not    *)
(* come back.                                                              *)
Start(p) ==
    /\ pc[p] \in Ended
    /\ lock # p
    /\ pushes < MaxPushes
    /\ Goto(p, "status")
    /\ carries' = [carries EXCEPT ![p] = head]
    /\ pushed' = [pushed EXCEPT ![p] = {}]
    /\ listed' = [listed EXCEPT ![p] = NoListing]
    /\ key' = [key EXCEPT ![p] = NoKey]
    /\ polls' = [polls EXCEPT ![p] = 0]
    /\ held' = [held EXCEPT ![p] = FALSE]
    /\ verdict' = [verdict EXCEPT ![p] = Failed]
    /\ seen' = [seen EXCEPT ![p] = Origin]
    /\ waved' = [waved EXCEPT ![p] = {}]
    /\ pushes' = pushes + 1
    /\ UNCHANGED <<tree, shared, moved, crashes>>

(* readDirtyFiles: git status. *)
ReadStatus(p) ==
    /\ pc[p] = "status"
    /\ Goto(p, "key")
    /\ listed' = [listed EXCEPT ![p] = Listing]
    /\ UNCHANGED <<tree, shared, carries, pushed, key, polls, held, verdict,
                   seen, waved, moved, bounds>>

(* git rev-parse HEAD, then the stat of every listed path.                 *)
ReadKey(p) ==
    /\ pc[p] = "key"
    /\ Goto(p, "cache")
    /\ key' = [key EXCEPT ![p] = KeyOf(listed[p])]
    /\ seen' = [seen EXCEPT ![p] = Disk]
    /\ moved' = (moved \/ listed[p] # Listing)
    /\ listed' = [listed EXCEPT ![p] = NoListing]
    /\ UNCHANGED <<tree, shared, carries, pushed, polls, held, verdict, waved,
                   bounds>>

ReadCache(p) ==
    /\ pc[p] = "cache"
    /\ IF Hit(key[p])
         THEN Goto(p, "decide") /\ verdict' = [verdict EXCEPT ![p] = cache[key[p]]]
         ELSE Goto(p, "acquire") /\ UNCHANGED verdict
    /\ UNCHANGED <<tree, shared, carries, pushed, listed, key, polls, held,
                   seen, waved, moved, bounds>>

(* acquireFixerLock, for the first time. *)
Acquire(p) ==
    /\ pc[p] = "acquire"
    /\ IF lock = None
         THEN /\ lock' = p
              /\ held' = [held EXCEPT ![p] = TRUE]
              /\ Goto(p, "tsc")
         ELSE Goto(p, "poll") /\ UNCHANGED <<lock, held>>
    /\ UNCHANGED <<tree, cache, carries, pushed, listed, key, polls, verdict,
                   seen, waved, moved, bounds>>

(* Mutant: the handle of a retry is not kept. *)
PollAcquireDropped(p) ==
    /\ pc[p] = "poll"
    /\ IF lock = None
         THEN lock' = p /\ Goto(p, "tsc")
         ELSE Goto(p, "peek") /\ UNCHANGED lock
    /\ UNCHANGED <<tree, cache, carries, pushed, listed, key, polls, held,
                   verdict, seen, waved, moved, bounds>>

(* tryAcquire: each round of the wait asks for the lock first.             *)
PollAcquire(p) ==
    /\ pc[p] = "poll"
    /\ IF lock = None
         THEN /\ lock' = p
              /\ held' = [held EXCEPT ![p] = TRUE]
              /\ Goto(p, "tsc")
         ELSE Goto(p, "peek") /\ UNCHANGED <<lock, held>>
    /\ UNCHANGED <<tree, cache, carries, pushed, listed, key, polls, verdict,
                   seen, waved, moved, bounds>>

(* Mutant: the wait has no deadline. *)
PollCacheForever(p) ==
    /\ pc[p] = "peek"
    /\ Goto(p, IF Hit(key[p]) THEN "peer" ELSE "poll")
    /\ UNCHANGED <<tree, shared, local, moved, bounds>>

(* Mutant: the deadline is compared with > instead of >=. *)
PollCacheOnceMore(p) ==
    /\ pc[p] = "peek"
    /\ IF Hit(key[p]) THEN Goto(p, "peer") /\ UNCHANGED polls
       ELSE IF polls[p] > MaxPolls THEN Goto(p, "tsc") /\ UNCHANGED polls
       ELSE Goto(p, "poll") /\ polls' = [polls EXCEPT ![p] = @ + 1]
    /\ UNCHANGED <<tree, shared, carries, pushed, listed, key, held, verdict,
                   seen, waved, moved, bounds>>

(* cacheHit, then the deadline, past which the push goes on without the    *)
(* lock; else sleep and poll again.                                        *)
PollCache(p) ==
    /\ pc[p] = "peek"
    /\ IF Hit(key[p]) THEN Goto(p, "peer") /\ UNCHANGED polls
       ELSE IF polls[p] >= MaxPolls THEN Goto(p, "tsc") /\ UNCHANGED polls
       ELSE Goto(p, "poll") /\ polls' = [polls EXCEPT ![p] = @ + 1]
    /\ UNCHANGED <<tree, shared, carries, pushed, listed, key, held, verdict,
                   seen, waved, moved, bounds>>

(* peer-finished: read the verdict again; if a writer has truncated it     *)
(* since, run the compiler, without the lock.                              *)
ReadPeer(p) ==
    /\ pc[p] = "peer"
    /\ IF Hit(key[p])
         THEN Goto(p, "decide") /\ verdict' = [verdict EXCEPT ![p] = cache[key[p]]]
         ELSE Goto(p, "tsc") /\ UNCHANGED verdict
    /\ UNCHANGED <<tree, shared, carries, pushed, listed, key, polls, held,
                   seen, waved, moved, bounds>>

(* The compiler reads the working tree and exits.                          *)
TscExits(p) ==
    /\ pc[p] = "tsc"
    /\ Goto(p, "open")
    /\ verdict' = [verdict EXCEPT ![p] = TypeCheck(Disk)]
    /\ moved' = (moved \/ Disk # seen[p])
    /\ UNCHANGED <<tree, shared, carries, pushed, listed, key, polls, held,
                   seen, waved, bounds>>

(* A signal ends it: r.status is null, and 1 is recorded instead.          *)
TscKilled(p) ==
    /\ pc[p] = "tsc"
    /\ crashes < MaxCrashes
    /\ crashes' = crashes + 1
    /\ Goto(p, "open")
    /\ verdict' = [verdict EXCEPT ![p] = Failed]
    /\ UNCHANGED <<tree, shared, carries, pushed, listed, key, polls, held,
                   seen, waved, moved, pushes>>

(* HEAVY_JOB_BUSY_EXIT_CODE: the run was not admitted; nothing is recorded. *)
TscBusy(p) ==
    /\ pc[p] = "tsc"
    /\ Goto(p, "release")
    /\ verdict' = [verdict EXCEPT ![p] = Failed]
    /\ UNCHANGED <<tree, shared, carries, pushed, listed, key, polls, held,
                   seen, waved, moved, bounds>>

(* writeFileSync truncates the verdict file, then fills it.  A failure of  *)
(* either half is swallowed.                                               *)
OpenEntry(p) ==
    /\ pc[p] = "open"
    /\ Goto(p, "fill")
    /\ Store(key[p], Torn)
    /\ UNCHANGED <<tree, lock, local, moved, bounds>>

FillEntry(p) ==
    /\ pc[p] = "fill"
    /\ Goto(p, "release")
    /\ Store(key[p], verdict[p])
    /\ UNCHANGED <<tree, lock, local, moved, bounds>>

WriteFails(p) ==
    /\ pc[p] \in {"open", "fill"}
    /\ Goto(p, "release")
    /\ UNCHANGED <<tree, shared, local, moved, bounds>>

(* Mutant: the lock is released whoever has it. *)
ReleaseAnyway(p) ==
    /\ pc[p] = "release"
    /\ Goto(p, "decide")
    /\ lock' = None
    /\ held' = [held EXCEPT ![p] = FALSE]
    /\ UNCHANGED <<tree, cache, carries, pushed, listed, key, polls, verdict,
                   seen, waved, moved, bounds>>

(* finally { held?.release() } *)
Release(p) ==
    /\ pc[p] = "release"
    /\ Goto(p, "decide")
    /\ lock' = IF held[p] THEN None ELSE lock
    /\ held' = [held EXCEPT ![p] = FALSE]
    /\ UNCHANGED <<tree, cache, carries, pushed, listed, key, polls, verdict,
                   seen, waved, moved, bounds>>

-----------------------------------------------------------------------------
(* The files the push touches, or {} when git cannot tell (a new branch).  *)
PushedRange(p) == {{}, {f \in File : carries[p][f] # Origin[f]}}

(* splitTypeErrorBlame: errors only in dirty files that are not pushed.    *)
Foreign(errs, dirty, range) ==
    IF range = {} THEN {} ELSE (errs \cap dirty) \ range

(* Mutant: a failure without a diagnostic blames nobody, and passes. *)
DecideUnparsed(p) ==
    /\ pc[p] = "decide"
    /\ \E range \in PushedRange(p) :
          LET foreign == Foreign(verdict[p].errors, Dirty \ Misread, range)
          IN  /\ pushed' = [pushed EXCEPT ![p] = range]
              /\ IF verdict[p].errors = foreign
                   THEN Goto(p, "passed") /\ waved' = [waved EXCEPT ![p] = foreign]
                   ELSE Goto(p, "blocked") /\ UNCHANGED waved
    /\ UNCHANGED <<tree, shared, carries, listed, key, polls, held, verdict,
                   seen, moved, bounds>>

(* The end of scanTypeCheck; the dirty files are read once more.  A        *)
(* failure without a parseable diagnostic blocks.                          *)
Decide(p) ==
    /\ pc[p] = "decide"
    /\ \E range \in PushedRange(p) :
          LET v == verdict[p]
              foreign == Foreign(v.errors, Dirty \ Misread, range)
          IN  /\ pushed' = [pushed EXCEPT ![p] = range]
              /\ IF v.ok \/ (v.errors # {} /\ v.errors = foreign)
                   THEN Goto(p, "passed") /\ waved' = [waved EXCEPT ![p] = foreign]
                   ELSE Goto(p, "blocked") /\ UNCHANGED waved
    /\ UNCHANGED <<tree, shared, carries, listed, key, polls, held, verdict,
                   seen, moved, bounds>>

(* The push is interrupted: its lock and its half-written file remain.     *)
Crash(p) ==
    /\ pc[p] \notin Ended
    /\ crashes < MaxCrashes
    /\ crashes' = crashes + 1
    /\ Goto(p, "dead")
    /\ held' = [held EXCEPT ![p] = FALSE]
    /\ UNCHANGED <<tree, shared, carries, pushed, listed, key, polls, verdict,
                   seen, waved, moved, pushes>>

-----------------------------------------------------------------------------
(* Sessions of the checkout edit a file, or commit what is in one.         *)
Edit(f, v) ==
    /\ Len(past[f]) <= MaxEdits
    /\ v # Body(f)
    /\ past' = [past EXCEPT ![f] = Append(@, v)]
    /\ UNCHANGED <<head, shared, pc, local, moved, bounds>>

Commit(f) ==
    /\ f \in Dirty
    /\ head' = [head EXCEPT ![f] = Body(f)]
    /\ UNCHANGED <<past, shared, pc, local, moved, bounds>>

(* A lint or fix run has the lock; a lock left by a dead push may be       *)
(* taken away (scripts/fleet/process/fixer-lock.mts, not in the repository). *)
FixerLocks ==
    /\ lock = None
    /\ lock' = Fixer
    /\ UNCHANGED <<tree, cache, pc, local, moved, bounds>>

FixerUnlocks ==
    /\ lock = Fixer
    /\ lock' = None
    /\ UNCHANGED <<tree, cache, pc, local, moved, bounds>>

ReclaimLock ==
    /\ lock \in Proc /\ pc[lock] = "dead"
    /\ lock' = None
    /\ UNCHANGED <<tree, cache, pc, local, moved, bounds>>

(* What a push does by itself, once it has begun. *)
Tsc(p)  == TscExits(p) \/ TscKilled(p) \/ TscBusy(p)
Wait(p) == Acquire(p) \/ PollAcquire(p) \/ PollCache(p) \/ ReadPeer(p)
Advance(p) ==
    \/ ReadStatus(p) \/ ReadKey(p) \/ ReadCache(p)
    \/ Wait(p) \/ Tsc(p)
    \/ OpenEntry(p) \/ FillEntry(p) \/ WriteFails(p)
    \/ Release(p) \/ Decide(p)

Next ==
    \/ \E p \in Proc : Start(p) \/ Advance(p) \/ Crash(p)
    \/ \E f \in File, v \in Version : Edit(f, v)
    \/ \E f \in File : Commit(f)
    \/ FixerLocks \/ FixerUnlocks \/ ReclaimLock

Spec == Init /\ [][Next]_vars

(* A push that is not killed keeps executing and its compiler ends.        *)
(* Nothing is assumed of the lock's other holders.                         *)
FairSpec == Spec /\ \A p \in Proc : WF_vars(Advance(p))

-----------------------------------------------------------------------------
(***************************************************************************)
(* Properties                                                              *)
(***************************************************************************)

(* Every variable has its type.                                            *)
Key == [head : Tree, dirty : SUBSET File, stamp : [File -> Nat]]

TreeOK ==
    /\ head \in Tree
    /\ past \in [File -> Seq(Version)]
    /\ \A f \in File : past[f] # <<>>

SharedOK ==
    /\ DOMAIN cache \subseteq Key
    /\ \A k \in DOMAIN cache : cache[k] \in Verdict \cup {Torn}
    /\ lock \in Proc \cup {None, Fixer}

PushOK ==
    /\ pc \in [Proc -> PC]
    /\ carries \in [Proc -> Tree] /\ seen \in [Proc -> Tree]
    /\ pushed \in [Proc -> SUBSET File] /\ waved \in [Proc -> SUBSET File]
    /\ listed \in [Proc -> [dirty : SUBSET File, misread : SUBSET File]]
    /\ key \in [Proc -> Key]
    /\ polls \in [Proc -> 0..MaxPolls]
    /\ held \in [Proc -> BOOLEAN]
    /\ verdict \in [Proc -> Verdict]

TypeOK ==
    /\ TreeOK /\ SharedOK /\ PushOK
    /\ moved \in BOOLEAN
    /\ pushes \in 0..MaxPushes /\ crashes \in 0..MaxCrashes

(* The verdict a push goes by, when the compiler gave one, is that of the  *)
(* tree it computed its key from.                                          *)
GoesByItsTree(p) ==
    pc[p] = "decide" /\ verdict[p] # Failed => verdict[p] = TypeCheck(seen[p])

(* As long as no tree changed under a key or a compiler, a push goes by a  *)
(* verdict of its own tree if its key lists every dirty path rightly:      *)
(* neither the wait, nor a peer that recorded it before or meanwhile, nor  *)
(* edits, commits and reverts between pushes bring it another's            *)
(* (typecheckCacheKey, readTypecheckVerdict, runTypeCheckOnce).            *)
VerdictFitsTree ==
    ~moved => \A p \in Proc : WellNamed(key[p]) => GoesByItsTree(p)

(* "each entry carries its size and mtime so an edit that keeps a path in  *)
(* the set still moves the key": no exception for a misread path.          *)
SameKeySameTree == ~moved => \A p \in Proc : GoesByItsTree(p)

(* The tree a key describes. *)
TreeOf(k) ==
    [f \in File |-> IF f \in k.dirty THEN past[f][k.stamp[f]] ELSE k.head[f]]

(* Two pushes run the compiler at once only if one has no handle: it       *)
(* waited past the deadline, or its peer's verdict was torn.  No other     *)
(* push releases the lock under a run that has it (held?.release()).       *)
HolderRunsAlone ==
    \A p, q \in Proc :
        pc[p] \in Running /\ pc[q] \in Running /\ held[p] /\ held[q] => p = q

(* "a successful retry then left the lock held forever": a push that has   *)
(* decided or waits has no lock, whichever attempt got it.                 *)
NothingLeftHeld ==
    \A p \in Proc : lock = p => pc[p] \in Running \cup {"dead"}

(* A push passes on its own clean commit only if that type-checks: when    *)
(* nothing moved, its key was that of the commit it carries, and nothing   *)
(* was waved through.  Killed and refused compilers do not let it pass.    *)
PassedCommitChecks ==
    \A p \in Proc :
        pc[p] = "passed" /\ ~moved /\ WellNamed(key[p])
            /\ seen[p] = carries[p] /\ waved[p] = {}
        => Errors(carries[p]) = {}

(* "a holder that never releases costs concurrency, never a blocked push": *)
(* every push comes to an end.                                             *)
PushEnds == \A p \in Proc : pc[p] = "status" ~> pc[p] \in Ended

==============================================================================
